---------------------------- MODULE Spec2Model ----------------------------
(***************************************************************************)
(* Command router, intent processor, scheduler, job queue and token        *)
(* refresh of the calendar MCP server, as state machines.                  *)
(*                                                                         *)
(*   SpecRouter     core/router     registerHandler, processCommand        *)
(*   SpecIntent     core/nlp        processIntent                          *)
(*   SpecScheduler  core/scheduler  scheduleTask, cancelTask, firings, exit*)
(*   SpecQueue      core/queue      the three job queues and their workers *)
(*   SpecMetrics    core/queue      getQueueMetrics                        *)
(*   SpecToken      core/auth       needsRefresh, handleTokenRefresh       *)
(*   SpecRefresh    core/auth       a token refreshed again and again      *)
(*   SpecHistory    core/memory     storeMessage, getHistory               *)
(*   SpecContext    core/memory     storeContext, getContext, clearContext *)
(*   SpecAuth       core/auth       authenticate, requireRole              *)
(*   SpecRoute      api/routes      authenticate before the command router *)
(***************************************************************************)
EXTENDS Integers, Sequences, FiniteSets, TLC

VARIABLES
    handlers,        \* router: the handler registry, command name -> handler
    warned,          \* router: names an "Overwriting existing handler" warning was logged for
    lastReg,         \* router: per name, the handler of the latest registerHandler call
    reqs,            \* router: the requests given to processCommand
    nlpInput,        \* nlp: the text handed to parseInput
    intent,          \* nlp: the intent handed to processIntent
    result,          \* nlp: what processIntent returned (NoResult before the call)
    domainActions,   \* nlp: the intent branches that ran a domain action
    scheduledTasks,  \* scheduler: the registry, task name -> timer
    timers,          \* scheduler: the timers cron.schedule created that were not stopped
    nextTimer,       \* scheduler: the identity of the next timer created
    lastCall,        \* scheduler: the last call made and what it returned
    taskErrors,      \* scheduler: the running timers one of whose runs ended in an error
    queuesOpen,      \* scheduler: the queues whose connections are open
    exited,          \* scheduler: process.exit was called
    running,         \* scheduler: the timers a run of whose task is in progress
    jobs,            \* queue: every job added
    workers,         \* queue: the number of busy workers of each queue
    now,             \* queue: the clock
    metrics,         \* queue: the last answer of getQueueMetrics
    clock,           \* auth: Date.now(), in minutes
    tok,             \* auth: the last call of handleTokenRefresh
    historyStore,    \* memory: the messages kept for each user
    stored,          \* memory: the storeMessage calls that returned, per user
    histCall,        \* memory: the last call on the history and its answer
    contextStore,    \* memory: the context entries of each user
    ctxCall,         \* memory: the last call on the context and its answer
    http,            \* auth: the request on the MCP route
    rbac             \* auth: the last request given to requireRole

routerVars == <<handlers, warned, lastReg, reqs>>
nlpVars == <<nlpInput, intent, result, domainActions>>
schedVars ==
    <<scheduledTasks, timers, nextTimer, lastCall, taskErrors, queuesOpen, exited,
      running>>
queueVars == <<jobs, workers, now, metrics>>
tokenVars == <<clock, tok>>
memVars == <<historyStore, stored, histCall, contextStore, ctxCall>>
authVars == <<http, rbac>>
vars == <<handlers, warned, lastReg, reqs, nlpInput, intent, result, domainActions,
          scheduledTasks, timers, nextTimer, lastCall, taskErrors, queuesOpen,
          exited, running, jobs, workers, now, metrics, clock, tok, historyStore,
          stored, histCall, contextStore, ctxCall, http, rbac>>

(***************************************************************************)
(* Bounds of the model.                                                    *)
(***************************************************************************)
MaxReqs == 2
MaxTimers == 2
MaxJobs == 2
MaxWorkers == 2
MaxNow == 1
MaxClock == 3

(***************************************************************************)
(* JavaScript values the router sees.                                      *)
(***************************************************************************)
Undefined == "<undefined>"
EmptyString == ""
EmptyMap == "{}"

\* !v for the values a request body field takes here
Falsy(v) == v \in {Undefined, EmptyString}

\* a || b
OrElse(a, b) == IF Falsy(a) THEN b ELSE a

(***************************************************************************)
(* core/router                                                             *)
(***************************************************************************)
\* command names requests and registrations use; "toString" is also a member
\* of Object.prototype, which the registry object {} inherits from
CommandNames == {"calendar.event.create", "toString"}
ProtoNames == {"toString"}
BodyCommands == CommandNames \cup {Undefined, EmptyString, "docs.create"}
BodyParameters == {Undefined, "{param1}"}

HandlerIds == {"h1", "h2"}
\* Object.prototype.toString, reached through the prototype chain
ProtoFn == "Object.prototype.toString"
\* what a handler call does: it returns a promise that resolves or rejects,
\* or it throws before returning one
HandlerOutcomes == {"resolve", "reject", "throw"}
HandlerErrors == {"Handler error", "Other handler error"}

createApiError(statusCode, message) ==
    [name |-> "ApiError", statusCode |-> statusCode, message |-> message]

HandlerError(message) ==
    [name |-> "Error", statusCode |-> 0, message |-> message]

NoError == [name |-> Undefined, statusCode |-> 0, message |-> Undefined]
NoCommandData == [command |-> Undefined, parameters |-> Undefined]

\* handlers[commandType] of a plain object: an own property, else an inherited one
Lookup(h, commandType) ==
    IF commandType \in DOMAIN h /\ h[commandType] # Undefined THEN h[commandType]
    ELSE IF commandType \in ProtoNames THEN ProtoFn
    ELSE Undefined

NewReq ==
    [pc |-> "new", command |-> Undefined, commandData |-> NoCommandData,
     invoked |-> <<>>, thrown |-> NoError, nextCalls |-> <<>>, rejected |-> FALSE]

InitRouter ==
    /\ handlers = [c \in CommandNames |-> Undefined]
    /\ warned = {}
    /\ lastReg = [c \in CommandNames |-> Undefined]
    /\ reqs = [r \in 1..MaxReqs |-> NewReq]

\* the mutation: a name that has a handler keeps it
registerHandlerKeepFirst(commandType, handler) ==
    /\ handlers' = IF Lookup(handlers, commandType) # Undefined
                   THEN handlers
                   ELSE [handlers EXCEPT ![commandType] = handler]
    /\ warned' = IF Lookup(handlers, commandType) # Undefined
                 THEN warned \cup {commandType} ELSE warned
    /\ UNCHANGED reqs

registerHandler(commandType, handler) ==
    /\ warned' = IF Lookup(handlers, commandType) # Undefined
                 THEN warned \cup {commandType} ELSE warned
    /\ handlers' = [handlers EXCEPT ![commandType] = handler]
    /\ UNCHANGED reqs

\* the mutation: the parameters are attached as the body gave them
processCommandStartRawParameters(r, command, parameters, outcome, err) ==
    /\ reqs[r].pc = "new"
    /\ LET handler == Lookup(handlers, command)
           base == [reqs[r] EXCEPT !.command = command]
       IN  IF Falsy(command)
           THEN reqs' = [reqs EXCEPT ![r] = [base EXCEPT
                    !.pc = "done",
                    !.nextCalls = <<createApiError(400, "Missing command field in request body")>>]]
           ELSE IF handler = Undefined
           THEN reqs' = [reqs EXCEPT ![r] = [base EXCEPT
                    !.pc = "done",
                    !.nextCalls = <<createApiError(404, "No handler registered for command")>>]]
           ELSE LET withData == [base EXCEPT
                        !.commandData = [command |-> command, parameters |-> parameters],
                        !.invoked = <<handler>>]
                IN  IF handler # ProtoFn /\ outcome = "throw"
                    THEN reqs' = [reqs EXCEPT ![r] = [withData EXCEPT
                             !.pc = "done",
                             !.thrown = HandlerError(err),
                             !.nextCalls = <<HandlerError(err)>>]]
                    ELSE reqs' = [reqs EXCEPT ![r] = [withData EXCEPT !.pc = "awaiting"]]
    /\ UNCHANGED <<handlers, warned>>

\* the mutation: the check for a missing command is left out
processCommandStartNoCheck(r, command, parameters, outcome, err) ==
    /\ reqs[r].pc = "new"
    /\ LET handler == Lookup(handlers, command)
           base == [reqs[r] EXCEPT !.command = command]
       IN  IF handler = Undefined
           THEN reqs' = [reqs EXCEPT ![r] = [base EXCEPT
                    !.pc = "done",
                    !.nextCalls = <<createApiError(404, "No handler registered for command")>>]]
           ELSE LET withData == [base EXCEPT
                        !.commandData = [command |-> command,
                                         parameters |-> OrElse(parameters, EmptyMap)],
                        !.invoked = <<handler>>]
                IN  IF handler # ProtoFn /\ outcome = "throw"
                    THEN reqs' = [reqs EXCEPT ![r] = [withData EXCEPT
                             !.pc = "done",
                             !.thrown = HandlerError(err),
                             !.nextCalls = <<HandlerError(err)>>]]
                    ELSE reqs' = [reqs EXCEPT ![r] = [withData EXCEPT !.pc = "awaiting"]]
    /\ UNCHANGED <<handlers, warned>>

\* processCommand up to the await of the handler's promise: no other code runs
\* between the checks, the lookup and the call of the handler
processCommandStart(r, command, parameters, outcome, err) ==
    /\ reqs[r].pc = "new"
    /\ LET handler == Lookup(handlers, command)
           base == [reqs[r] EXCEPT !.command = command]
       IN  IF Falsy(command)
           THEN reqs' = [reqs EXCEPT ![r] = [base EXCEPT
                    !.pc = "done",
                    !.nextCalls = <<createApiError(400, "Missing command field in request body")>>]]
           ELSE IF handler = Undefined
           THEN reqs' = [reqs EXCEPT ![r] = [base EXCEPT
                    !.pc = "done",
                    !.nextCalls = <<createApiError(404, "No handler registered for command")>>]]
           ELSE LET withData == [base EXCEPT
                        !.commandData = [command |-> command,
                                         parameters |-> OrElse(parameters, EmptyMap)],
                        !.invoked = <<handler>>]
                IN  IF handler # ProtoFn /\ outcome = "throw"
                    THEN reqs' = [reqs EXCEPT ![r] = [withData EXCEPT
                             !.pc = "done",
                             !.thrown = HandlerError(err),
                             !.nextCalls = <<HandlerError(err)>>]]
                    ELSE reqs' = [reqs EXCEPT ![r] = [withData EXCEPT !.pc = "awaiting"]]
    /\ UNCHANGED <<handlers, warned>>

\* the mutation: the catch block rethrows instead of calling next
processCommandSettleRethrow(r, outcome, err) ==
    /\ reqs[r].pc = "awaiting"
    /\ IF reqs[r].invoked[1] # ProtoFn /\ outcome = "reject"
       THEN reqs' = [reqs EXCEPT ![r] = [@ EXCEPT
                !.pc = "done",
                !.thrown = HandlerError(err),
                !.rejected = TRUE]]
       ELSE reqs' = [reqs EXCEPT ![r] = [@ EXCEPT !.pc = "done"]]
    /\ UNCHANGED <<handlers, warned>>

\* the awaited promise settles: a rejection reaches the catch block
processCommandSettle(r, outcome, err) ==
    /\ reqs[r].pc = "awaiting"
    /\ IF reqs[r].invoked[1] # ProtoFn /\ outcome = "reject"
       THEN reqs' = [reqs EXCEPT ![r] = [@ EXCEPT
                !.pc = "done",
                !.thrown = HandlerError(err),
                !.nextCalls = Append(@, HandlerError(err))]]
       ELSE reqs' = [reqs EXCEPT ![r] = [@ EXCEPT !.pc = "done"]]
    /\ UNCHANGED <<handlers, warned>>

RegisterHandler ==
    /\ \E c \in CommandNames, h \in HandlerIds :
            /\ registerHandler(c, h)
            /\ lastReg' = [lastReg EXCEPT ![c] = h]
    /\ UNCHANGED <<nlpVars, schedVars, queueVars, tokenVars, memVars, authVars>>

ProcessCommandStart ==
    /\ \E r \in 1..MaxReqs, c \in BodyCommands, p \in BodyParameters,
          o \in HandlerOutcomes, e \in HandlerErrors :
            processCommandStart(r, c, p, o, e)
    /\ UNCHANGED <<lastReg, nlpVars, schedVars, queueVars, tokenVars, memVars, authVars>>

ProcessCommandSettle ==
    /\ \E r \in 1..MaxReqs, o \in {"resolve", "reject"}, e \in HandlerErrors :
            processCommandSettle(r, o, e)
    /\ UNCHANGED <<lastReg, nlpVars, schedVars, queueVars, tokenVars, memVars, authVars>>

NextRouter == RegisterHandler \/ ProcessCommandStart \/ ProcessCommandSettle

(***************************************************************************)
(* core/nlp: processIntent.  A confidence is kept in hundredths.           *)
(***************************************************************************)
IntentType == {"CREATE_EVENT", "UPDATE_EVENT", "DELETE_EVENT", "QUERY_EVENTS",
               "CREATE_DOCUMENT", "UPDATE_DOCUMENT", "SET_PREFERENCE",
               "GET_PREFERENCE", "UNKNOWN"}
Confidences == {0, 10, 30, 49, 50, 51, 85, 90, 100}
EntityLists ==
    {<<>>,
     <<[type |-> "DATE_TIME", value |-> <<"tomorrow", "at", "2pm">>, confidence |-> 80]>>}

\* the intents a caller passes; isNull stands for a null or undefined argument
Intents ==
    [isNull : {FALSE}, type : IntentType, confidence : Confidences, entities : EntityLists]
NullIntent == [isNull |-> TRUE, type |-> Undefined, confidence |-> 0, entities |-> <<>>]
NoIntent == [isNull |-> TRUE, type |-> "<none>", confidence |-> 0, entities |-> <<>>]

\* intent.confidence < 0.5, in hundredths
LowConfidenceThreshold == 50

NoData == [message |-> Undefined, intent |-> Undefined, entities |-> <<>>]
NoResultError == [code |-> Undefined, message |-> Undefined]
\* threw: the promise processIntent returns rejected
NoResult ==
    [returned |-> FALSE, threw |-> FALSE, success |-> FALSE, data |-> NoData,
     error |-> NoResultError]

Success(message, i) ==
    [returned |-> TRUE, threw |-> FALSE, success |-> TRUE,
     data |-> [message |-> message, intent |-> i.type, entities |-> i.entities],
     error |-> NoResultError]

Failure(code, message) ==
    [returned |-> TRUE, threw |-> FALSE, success |-> FALSE, data |-> NoData,
     error |-> [code |-> code, message |-> message]]

\* the mutation: the type is switched on before the confidence is looked at
processIntentTypeFirst(i) ==
    IF i.isNull
    THEN Failure("PROCESSING_ERROR", "An error occurred while processing your request")
    ELSE IF i.type = "CREATE_EVENT" /\ i.confidence >= LowConfidenceThreshold
    THEN Success("Event created successfully", i)
    ELSE IF i.type = "CREATE_DOCUMENT" /\ i.confidence >= LowConfidenceThreshold
    THEN Success("Document created successfully", i)
    ELSE IF i.type = "SET_PREFERENCE" /\ i.confidence >= LowConfidenceThreshold
    THEN Success("Preferences updated successfully", i)
    ELSE IF i.type \in {"CREATE_EVENT", "CREATE_DOCUMENT", "SET_PREFERENCE"}
    THEN Failure("LOW_CONFIDENCE", "Could not understand the request with sufficient confidence")
    ELSE Failure("UNKNOWN_INTENT", "Could not determine what you want to do")

\* the mutation: the gate also rejects a confidence of exactly 0.5
processIntentGateInclusive(i) ==
    IF i.isNull
    THEN Failure("PROCESSING_ERROR", "An error occurred while processing your request")
    ELSE IF i.confidence <= LowConfidenceThreshold
    THEN Failure("LOW_CONFIDENCE", "Could not understand the request with sufficient confidence")
    ELSE IF i.type = "CREATE_EVENT" THEN Success("Event created successfully", i)
    ELSE IF i.type = "CREATE_DOCUMENT" THEN Success("Document created successfully", i)
    ELSE IF i.type = "SET_PREFERENCE" THEN Success("Preferences updated successfully", i)
    ELSE Failure("UNKNOWN_INTENT", "Could not determine what you want to do")

\* the mutation: there is no try/catch around the body
processIntentNoCatch(i) ==
    IF i.isNull
    THEN [NoResult EXCEPT !.threw = TRUE]
    ELSE IF i.confidence < LowConfidenceThreshold
    THEN Failure("LOW_CONFIDENCE", "Could not understand the request with sufficient confidence")
    ELSE IF i.type = "CREATE_EVENT" THEN Success("Event created successfully", i)
    ELSE IF i.type = "CREATE_DOCUMENT" THEN Success("Document created successfully", i)
    ELSE IF i.type = "SET_PREFERENCE" THEN Success("Preferences updated successfully", i)
    ELSE Failure("UNKNOWN_INTENT", "Could not determine what you want to do")

\* the value processIntent resolves to; reading intent.type of a null intent
\* throws inside the try block and the catch block answers
processIntent(i) ==
    IF i.isNull
    THEN Failure("PROCESSING_ERROR", "An error occurred while processing your request")
    ELSE IF i.confidence < LowConfidenceThreshold
    THEN Failure("LOW_CONFIDENCE", "Could not understand the request with sufficient confidence")
    ELSE IF i.type = "CREATE_EVENT" THEN Success("Event created successfully", i)
    ELSE IF i.type = "CREATE_DOCUMENT" THEN Success("Document created successfully", i)
    ELSE IF i.type = "SET_PREFERENCE" THEN Success("Preferences updated successfully", i)
    ELSE Failure("UNKNOWN_INTENT", "Could not determine what you want to do")

(***************************************************************************)
(* core/nlp: parseInput and extractEntities.  A text is the sequence of    *)
(* its tokens, which single spaces separate: words, the comma, and a blank *)
(* token for surplus white space.  The substring tests and the regular     *)
(* expressions of the code are computed on the tokens of Vocabulary; the   *)
(* positions startIndex and endIndex of an entity are left out.            *)
(***************************************************************************)
Blank == " "
Comma == ","
Vocabulary ==
    {"schedule", "address", "set", "up", "meeting", "document", "preference",
     "with", "at", "what", "for", "long", "next", "this", "friday", "today",
     "tomorrow", "jane", "lunch", "a", "xyzabc123", "3pm", "30", "minutes",
     "Jane", "Schedule", Comma, Blank}

\* the bound of the enumerated texts and the words they are made of
MaxWords == 2
ShortVocabulary ==
    {"schedule", "meeting", "document", "preference", "with", "at", "tomorrow",
     "jane", "3pm", Comma}

\* a null or undefined argument
NullText == <<"<null>">>

Sentences ==
    {<<"schedule", "a", "meeting", "with", "Jane", "tomorrow", "at", "3pm">>,
     <<"Schedule", "a", "meeting", "with", "jane", Comma, "tomorrow", "at", "3pm">>,
     <<Blank, "lunch", "with", "jane", "tomorrow", "at", "3pm", Blank>>,
     <<"address", "a", "document", "for", "30", "minutes">>,
     <<"set", "up", "a", "meeting", "next", "friday", "at", "lunch">>,
     <<"what", "a", "meeting", "30", "minutes", "long", "today", "at", "3pm">>,
     <<"set", "a", "preference">>,
     <<"xyzabc123">>}

Inputs ==
    Sentences \cup {NullText}
        \cup UNION {[1..n -> ShortVocabulary] : n \in 0..MaxWords}

\* String.prototype.toLowerCase, token by token
Lower(t) ==
    CASE t = "Jane" -> "jane"
      [] t = "Schedule" -> "schedule"
      [] OTHER -> t

toLowerCase(text) == [i \in 1..Len(text) |-> Lower(text[i])]

\* String.prototype.trim: the white space at both ends goes
RECURSIVE trim(_)
trim(text) ==
    IF text = <<>> THEN <<>>
    ELSE IF Head(text) = Blank THEN trim(Tail(text))
    ELSE IF text[Len(text)] = Blank THEN trim(SubSeq(text, 1, Len(text) - 1))
    ELSE text

\* the tokens of Vocabulary that have the keyword as a substring
Containing(keyword) ==
    CASE keyword = "schedule" -> {"schedule"}
      [] keyword = "add" -> {"address"}
      [] keyword = "meeting" -> {"meeting"}
      [] keyword = "document" -> {"document"}
      [] keyword = "doc" -> {"document"}
      [] keyword = "preference" -> {"preference"}
      [] OTHER -> {}

\* String.prototype.includes for a keyword without a space
includes(text, keyword) ==
    \E i \in 1..Len(text) : text[i] \in Containing(keyword)

\* includes('set up'): a token ending in "set", a space, a token starting "up"
includesSetUp(text) ==
    \E i \in 1..(Len(text) - 1) : text[i] = "set" /\ text[i + 1] = "up"

\* [\w\s]+ : a token made of word characters or of white space
IsWord(t) == t # Comma
\* (\d{1,2})(:\d{2})?\s*(am|pm) inside one token
TimeTokens == {"3pm"}
\* \d+
NumberTokens == {"30"}
UnitTokens == {"minutes"}
Weekdays == {"friday"}
\* the tokens ending in "at", in "with"
AtTokens == {"at", "what"}
WithTokens == {"with"}

\* the leftmost of the positions
First(S) == CHOOSE i \in S : \A j \in S : i <= j

\* the matches of a pattern made of one set of tokens per position
MatchesAt(input, pattern) ==
    {i \in 1..(Len(input) - Len(pattern) + 1) :
        \A k \in 1..Len(pattern) : input[i + k - 1] \in pattern[k]}

\* input.match(regex) of a pattern of tokens, and the entity pushed for it
EntityOf(input, pattern, type, confidence) ==
    IF MatchesAt(input, pattern) = {} THEN <<>>
    ELSE LET i == First(MatchesAt(input, pattern))
         IN  <<[type |-> type,
                value |-> SubSeq(input, i, i + Len(pattern) - 1),
                confidence |-> confidence]>>

\* the end of the longest run of [\w\s] tokens that starts at position i
RunEnd(input, i) ==
    CHOOSE k \in i..Len(input) :
        /\ \A j \in i..k : IsWord(input[j])
        /\ k = Len(input) \/ ~IsWord(input[k + 1])

\* /at ([\w\s]+)(,|\.|\s|$)/ and /with ([\w\s]+)(,|\.|\s|$)/: the greedy
\* group takes every word up to a comma or the end; value is match[1].trim()
GreedyEntityOf(input, prefixes, type, confidence) ==
    LET starts == {i \in 1..(Len(input) - 1) :
                        input[i] \in prefixes /\ IsWord(input[i + 1])}
    IN  IF starts = {} THEN <<>>
        ELSE LET i == First(starts)
             IN  <<[type |-> type,
                    value |-> trim(SubSeq(input, i + 1, RunEnd(input, i + 1))),
                    confidence |-> confidence]>>

\* one entity at most per pattern, in the order of the patterns
extractEntities(input) ==
    EntityOf(input, <<{"today"}, {"at"}, TimeTokens>>, "DATE_TIME", 80)
    \o EntityOf(input, <<{"tomorrow"}, {"at"}, TimeTokens>>, "DATE_TIME", 80)
    \o EntityOf(input, <<{"next", "this"}, Weekdays>>, "DATE_TIME", 80)
    \o EntityOf(input, <<TimeTokens>>, "DATE_TIME", 80)
    \o EntityOf(input, <<{"for"}, NumberTokens, UnitTokens>>, "DURATION", 85)
    \o EntityOf(input, <<NumberTokens, UnitTokens, {"long"}>>, "DURATION", 85)
    \o GreedyEntityOf(input, AtTokens, "LOCATION", 70)
    \o GreedyEntityOf(input, WithTokens, "PERSON", 75)

Parsed(type, confidence, entities) ==
    [threw |-> FALSE,
     intent |-> [isNull |-> FALSE, type |-> type, confidence |-> confidence,
                 entities |-> entities]]

\* the mutation: an input without a pattern is answered at the gate value
parseRulesUnknownAtGate(normalizedInput) ==
    IF (\/ includes(normalizedInput, "schedule") \/ includes(normalizedInput, "create")
        \/ includes(normalizedInput, "add") \/ includesSetUp(normalizedInput))
       /\ (\/ includes(normalizedInput, "meeting")
           \/ includes(normalizedInput, "appointment")
           \/ includes(normalizedInput, "event"))
    THEN Parsed("CREATE_EVENT", 90, extractEntities(normalizedInput))
    ELSE IF (\/ includes(normalizedInput, "schedule") \/ includes(normalizedInput, "create")
             \/ includes(normalizedInput, "add") \/ includesSetUp(normalizedInput))
            /\ (\/ includes(normalizedInput, "document")
                \/ includes(normalizedInput, "note")
                \/ includes(normalizedInput, "doc"))
    THEN Parsed("CREATE_DOCUMENT", 85, extractEntities(normalizedInput))
    ELSE IF \/ includes(normalizedInput, "preference")
            \/ includes(normalizedInput, "setting")
            \/ includes(normalizedInput, "configure")
    THEN Parsed("SET_PREFERENCE", 80, extractEntities(normalizedInput))
    ELSE Parsed("UNKNOWN", 50, <<>>)

\* the rules of parseInput on the normalized input
parseRules(normalizedInput) ==
    IF (\/ includes(normalizedInput, "schedule") \/ includes(normalizedInput, "create")
        \/ includes(normalizedInput, "add") \/ includesSetUp(normalizedInput))
       /\ (\/ includes(normalizedInput, "meeting")
           \/ includes(normalizedInput, "appointment")
           \/ includes(normalizedInput, "event"))
    THEN Parsed("CREATE_EVENT", 90, extractEntities(normalizedInput))
    ELSE IF (\/ includes(normalizedInput, "schedule") \/ includes(normalizedInput, "create")
             \/ includes(normalizedInput, "add") \/ includesSetUp(normalizedInput))
            /\ (\/ includes(normalizedInput, "document")
                \/ includes(normalizedInput, "note")
                \/ includes(normalizedInput, "doc"))
    THEN Parsed("CREATE_DOCUMENT", 85, extractEntities(normalizedInput))
    ELSE IF \/ includes(normalizedInput, "preference")
            \/ includes(normalizedInput, "setting")
            \/ includes(normalizedInput, "configure")
    THEN Parsed("SET_PREFERENCE", 80, extractEntities(normalizedInput))
    ELSE Parsed("UNKNOWN", 30, <<>>)

\* the mutation: there is no try/catch around the body
parseInputNoCatch(text) ==
    IF text = NullText
    THEN [threw |-> TRUE, intent |-> NullIntent]
    ELSE parseRules(toLowerCase(trim(text)))

\* input.trim() of a null input throws inside the try block and the catch
\* block answers
parseInput(text) ==
    IF text = NullText
    THEN Parsed("UNKNOWN", 10, <<>>)
    ELSE parseRules(toLowerCase(trim(text)))

NoInput == [given |-> FALSE, text |-> <<>>, threw |-> FALSE]

\* the branches of the switch that stand for a call into an integration
domainActionOf(res) ==
    IF res.success THEN <<res.data.intent>> ELSE <<>>

InitIntent ==
    /\ nlpInput = NoInput
    /\ intent = NoIntent
    /\ result = NoResult
    /\ domainActions = <<>>

\* a caller hands over an intent
ReceiveIntent ==
    /\ \E i \in Intents \cup {NullIntent} :
            /\ intent' = i
            /\ nlpInput' = NoInput
            /\ result' = NoResult
            /\ domainActions' = <<>>
    /\ UNCHANGED <<routerVars, schedVars, queueVars, tokenVars, memVars, authVars>>

ProcessIntent ==
    /\ intent # NoIntent
    /\ ~result.returned /\ ~result.threw
    /\ result' = processIntent(intent)
    /\ domainActions' = domainActions \o domainActionOf(processIntent(intent))
    /\ UNCHANGED <<nlpInput, intent, routerVars, schedVars, queueVars, tokenVars, memVars, authVars>>

\* a caller hands a text to parseInput and keeps the intent for processIntent
ParseInput ==
    /\ intent = NoIntent
    /\ \E text \in Inputs :
            /\ nlpInput' = [given |-> TRUE, text |-> text, threw |-> parseInput(text).threw]
            /\ intent' = parseInput(text).intent
    /\ UNCHANGED <<result, domainActions, routerVars, schedVars, queueVars, tokenVars, memVars, authVars>>

NextIntent == ReceiveIntent \/ ParseInput \/ ProcessIntent

(***************************************************************************)
(* core/scheduler.  A timer is the ScheduledTask object cron.schedule      *)
(* returns; it ticks until its stop() is called.                           *)
(***************************************************************************)
TaskNames == {"x", "queue-metrics"}
TaskFns == {"f1", "f2"}
ValidCronExprs == {"*/10 * * * *", "0 0 * * *"}
CronExprs == ValidCronExprs \cup {"every ten minutes"}
NoTimer == 0

\* cron.validate
validate(cronExpression) == cronExpression \in ValidCronExprs

\* what a call of the task does: it returns (or its promise resolves), it
\* throws, or the promise it returns rejects
TaskOutcomes == {"returned", "threw", "rejected"}

NoRun == [outcome |-> "none", caught |-> FALSE, escaped |-> FALSE]

\* the mutation: the wrapper has no try/catch
safeTaskNoCatch(outcome) ==
    [outcome |-> outcome, caught |-> FALSE, escaped |-> outcome # "returned"]

\* the wrapper around the task: await Promise.resolve(task()) inside try, the
\* catch block logs; escaped says whether the wrapper's own promise rejects
safeTask(outcome) ==
    [outcome |-> outcome, caught |-> outcome # "returned", escaped |-> FALSE]

NoCall ==
    [op |-> "none", name |-> Undefined, expr |-> Undefined, task |-> Undefined,
     timer |-> NoTimer, replaced |-> NoTimer, immediate |-> FALSE, ran |-> FALSE,
     run |-> NoRun, result |-> FALSE]

\* task.stop() of the timer with identity id
stop(ts, id) == {t \in ts : t.id # id}

\* the three bull queues, each holding its connections from module load
Queues == {"calendar-jobs", "docs-jobs", "notification-jobs"}

InitScheduler ==
    /\ scheduledTasks = [n \in TaskNames |-> NoTimer]
    /\ timers = {}
    /\ nextTimer = 1
    /\ lastCall = NoCall
    /\ taskErrors = {}
    /\ queuesOpen = Queues
    /\ exited = FALSE
    /\ running = {}

\* the mutation: the registry entry is overwritten and the timer it held is
\* left running
scheduleTaskNoStop(name, cronExpression, task, immediate, installThrows, outcome) ==
    IF ~validate(cronExpression)
    THEN /\ lastCall' = [NoCall EXCEPT !.op = "scheduleTask", !.name = name,
                            !.expr = cronExpression, !.task = task,
                            !.immediate = immediate]
         /\ UNCHANGED <<scheduledTasks, timers, nextTimer, running>>
    ELSE IF installThrows
    THEN /\ scheduledTasks' = [scheduledTasks EXCEPT ![name] = NoTimer]
         /\ lastCall' = [NoCall EXCEPT !.op = "scheduleTask", !.name = name,
                            !.expr = cronExpression, !.task = task,
                            !.immediate = immediate,
                            !.replaced = scheduledTasks[name]]
         /\ UNCHANGED <<timers, nextTimer, running>>
    ELSE /\ timers' = timers \cup
                {[id |-> nextTimer, name |-> name, expr |-> cronExpression, task |-> task]}
         /\ scheduledTasks' = [scheduledTasks EXCEPT ![name] = nextTimer]
         /\ nextTimer' = nextTimer + 1
         /\ UNCHANGED running
         /\ lastCall' = [NoCall EXCEPT !.op = "scheduleTask", !.name = name,
                            !.expr = cronExpression, !.task = task,
                            !.immediate = immediate,
                            !.timer = nextTimer, !.replaced = scheduledTasks[name],
                            !.ran = immediate,
                            !.run = IF immediate THEN safeTask(outcome) ELSE NoRun,
                            !.result = TRUE]

\* the mutation: the expression is validated after the existing timer was
\* cancelled and the immediate run was made
scheduleTaskValidateLast(name, cronExpression, task, immediate, installThrows, outcome) ==
    LET stopped == stop(timers, scheduledTasks[name])
    IN  IF ~validate(cronExpression) \/ installThrows
        THEN /\ timers' = stopped
             /\ scheduledTasks' = [scheduledTasks EXCEPT ![name] = NoTimer]
             /\ lastCall' = [NoCall EXCEPT !.op = "scheduleTask", !.name = name,
                                !.expr = cronExpression, !.task = task,
                                !.immediate = immediate,
                                !.replaced = scheduledTasks[name],
                                !.ran = immediate /\ ~validate(cronExpression),
                                !.run = IF immediate /\ ~validate(cronExpression)
                                        THEN safeTask(outcome) ELSE NoRun]
             /\ UNCHANGED <<nextTimer, running>>
        ELSE /\ timers' = stopped \cup
                    {[id |-> nextTimer, name |-> name, expr |-> cronExpression,
                      task |-> task]}
             /\ scheduledTasks' = [scheduledTasks EXCEPT ![name] = nextTimer]
             /\ nextTimer' = nextTimer + 1
             /\ UNCHANGED running
             /\ lastCall' = [NoCall EXCEPT !.op = "scheduleTask", !.name = name,
                                !.expr = cronExpression, !.task = task,
                                !.immediate = immediate,
                                !.timer = nextTimer, !.replaced = scheduledTasks[name],
                                !.ran = immediate,
                                !.run = IF immediate THEN safeTask(outcome) ELSE NoRun,
                                !.result = TRUE]

\* installThrows: cron.schedule throws, which the catch block turns into false;
\* outcome: what the task does in the immediate run
scheduleTask(name, cronExpression, task, immediate, installThrows, outcome) ==
    IF ~validate(cronExpression)
    THEN /\ lastCall' = [NoCall EXCEPT !.op = "scheduleTask", !.name = name,
                            !.expr = cronExpression, !.task = task,
                            !.immediate = immediate]
         /\ UNCHANGED <<scheduledTasks, timers, nextTimer, running>>
    ELSE LET stopped == stop(timers, scheduledTasks[name])
         IN  IF installThrows
             THEN /\ timers' = stopped
                  /\ scheduledTasks' = [scheduledTasks EXCEPT ![name] = NoTimer]
                  /\ lastCall' = [NoCall EXCEPT !.op = "scheduleTask", !.name = name,
                                     !.expr = cronExpression, !.task = task,
                                     !.immediate = immediate,
                                     !.replaced = scheduledTasks[name]]
                  /\ UNCHANGED <<nextTimer, running>>
             ELSE /\ timers' = stopped \cup
                        {[id |-> nextTimer, name |-> name, expr |-> cronExpression,
                          task |-> task]}
                  /\ scheduledTasks' = [scheduledTasks EXCEPT ![name] = nextTimer]
                  /\ nextTimer' = nextTimer + 1
                  /\ UNCHANGED running
                  /\ lastCall' = [NoCall EXCEPT !.op = "scheduleTask", !.name = name,
                                     !.expr = cronExpression, !.task = task,
                                     !.immediate = immediate,
                                     !.timer = nextTimer, !.replaced = scheduledTasks[name],
                                     !.ran = immediate,
                                     !.run = IF immediate THEN safeTask(outcome) ELSE NoRun,
                                     !.result = TRUE]

\* the mutation: the registry entry is deleted and the timer is not stopped
cancelTaskKeepTimer(name) ==
    IF scheduledTasks[name] = NoTimer
    THEN /\ lastCall' = [NoCall EXCEPT !.op = "cancelTask", !.name = name]
         /\ UNCHANGED <<scheduledTasks, timers, nextTimer, running>>
    ELSE /\ scheduledTasks' = [scheduledTasks EXCEPT ![name] = NoTimer]
         /\ lastCall' = [NoCall EXCEPT !.op = "cancelTask", !.name = name,
                            !.replaced = scheduledTasks[name], !.result = TRUE]
         /\ UNCHANGED <<timers, nextTimer, running>>

\* the mutation: stopping a timer also ends the run of its task in progress
cancelTaskInterrupts(name) ==
    IF scheduledTasks[name] = NoTimer
    THEN /\ lastCall' = [NoCall EXCEPT !.op = "cancelTask", !.name = name]
         /\ UNCHANGED <<scheduledTasks, timers, nextTimer, running>>
    ELSE /\ timers' = stop(timers, scheduledTasks[name])
         /\ running' = stop(running, scheduledTasks[name])
         /\ scheduledTasks' = [scheduledTasks EXCEPT ![name] = NoTimer]
         /\ lastCall' = [NoCall EXCEPT !.op = "cancelTask", !.name = name,
                            !.replaced = scheduledTasks[name], !.result = TRUE]
         /\ UNCHANGED nextTimer

\* stop() ends the ticking of the timer; a run of the task in progress is not
\* touched
cancelTask(name) ==
    IF scheduledTasks[name] = NoTimer
    THEN /\ lastCall' = [NoCall EXCEPT !.op = "cancelTask", !.name = name]
         /\ UNCHANGED <<scheduledTasks, timers, nextTimer, running>>
    ELSE /\ timers' = stop(timers, scheduledTasks[name])
         /\ scheduledTasks' = [scheduledTasks EXCEPT ![name] = NoTimer]
         /\ lastCall' = [NoCall EXCEPT !.op = "cancelTask", !.name = name,
                            !.replaced = scheduledTasks[name], !.result = TRUE]
         /\ UNCHANGED <<nextTimer, running>>

stopAllTasks ==
    /\ timers' = {t \in timers : \A n \in TaskNames : scheduledTasks[n] # t.id}
    /\ scheduledTasks' = [n \in TaskNames |-> NoTimer]
    /\ lastCall' = [NoCall EXCEPT !.op = "stopAllTasks", !.result = TRUE]
    /\ UNCHANGED <<nextTimer, running>>

\* closeQueues: the three close() calls are started together; failed are the
\* queues whose close() rejects, which makes closeQueues throw
closeQueues(failed) ==
    queuesOpen' = queuesOpen \cap failed

\* the scheduler's shutdown: stopAllTasks(), then await closeQueues()
shutdown(failed) ==
    /\ timers' = {t \in timers : \A n \in TaskNames : scheduledTasks[n] # t.id}
    /\ scheduledTasks' = [n \in TaskNames |-> NoTimer]
    /\ closeQueues(failed)
    /\ lastCall' = [NoCall EXCEPT !.op = "shutdown", !.result = (failed = {})]
    /\ UNCHANGED <<nextTimer, running>>

\* the handler the server installs for SIGTERM and SIGINT: it logs and calls
\* process.exit(0)
signalShutdown ==
    /\ exited' = TRUE
    /\ lastCall' = [NoCall EXCEPT !.op = "signal", !.result = TRUE]
    /\ UNCHANGED <<scheduledTasks, timers, nextTimer, running, queuesOpen>>

\* a running timer reaches a time its expression matches and calls safeTask,
\* which runs the task up to its first suspension
fire(t) ==
    /\ t \in timers
    /\ t \notin running
    /\ running' = running \cup {t}
    /\ lastCall' = [NoCall EXCEPT !.op = "fire", !.name = t.name, !.expr = t.expr,
                       !.task = t.task, !.timer = t.id, !.result = TRUE]
    /\ UNCHANGED <<scheduledTasks, timers, nextTimer>>

\* the run of a task in progress ends: the promise safeTask awaits settles, or
\* the task threw
settle(t, outcome) ==
    /\ t \in running
    /\ running' = running \ {t}
    /\ lastCall' = [NoCall EXCEPT !.op = "settle", !.name = t.name, !.expr = t.expr,
                       !.task = t.task, !.timer = t.id, !.ran = TRUE,
                       !.run = safeTask(outcome), !.result = TRUE]
    /\ UNCHANGED <<scheduledTasks, timers, nextTimer>>

\* taskErrors after a step: the running timers one of whose runs ended in an
\* error, among them the run the step made
ErrorsAfter ==
    {i \in taskErrors \cup
            (IF lastCall'.ran /\ lastCall'.run.outcome # "returned"
             THEN {lastCall'.timer} ELSE {}) :
        \E t \in timers' : t.id = i}

\* the close() calls that reject in one call of closeQueues
CloseFailures == {{}, {"docs-jobs"}}

ScheduleTask ==
    /\ ~exited
    /\ nextTimer <= MaxTimers
    /\ \E n \in TaskNames, e \in CronExprs, f \in TaskFns, im \in BOOLEAN :
        \E th \in IF validate(e) THEN BOOLEAN ELSE {FALSE},
           o \in IF validate(e) /\ im THEN TaskOutcomes ELSE {"returned"} :
            scheduleTask(n, e, f, im, th, o)
    /\ taskErrors' = ErrorsAfter
    /\ UNCHANGED <<queuesOpen, exited, routerVars, nlpVars, queueVars,
                   tokenVars, memVars, authVars>>

CancelTask ==
    /\ ~exited
    /\ \E n \in TaskNames : cancelTask(n)
    /\ taskErrors' = ErrorsAfter
    /\ UNCHANGED <<queuesOpen, exited, routerVars, nlpVars, queueVars,
                   tokenVars, memVars, authVars>>

StopAllTasks ==
    /\ ~exited
    /\ stopAllTasks
    /\ taskErrors' = ErrorsAfter
    /\ UNCHANGED <<queuesOpen, exited, routerVars, nlpVars, queueVars,
                   tokenVars, memVars, authVars>>

Shutdown ==
    /\ ~exited
    /\ \E failed \in CloseFailures : shutdown(failed)
    /\ taskErrors' = ErrorsAfter
    /\ UNCHANGED <<exited, routerVars, nlpVars, queueVars, tokenVars, memVars, authVars>>

SignalShutdown ==
    /\ ~exited
    /\ signalShutdown
    /\ UNCHANGED <<taskErrors, routerVars, nlpVars, queueVars, tokenVars, memVars, authVars>>

Fire ==
    /\ ~exited
    /\ \E t \in timers : fire(t)
    /\ taskErrors' = ErrorsAfter
    /\ UNCHANGED <<queuesOpen, exited, routerVars, nlpVars, queueVars,
                   tokenVars, memVars, authVars>>

Settle ==
    /\ ~exited
    /\ \E t \in running, o \in TaskOutcomes : settle(t, o)
    /\ taskErrors' = ErrorsAfter
    /\ UNCHANGED <<queuesOpen, exited, routerVars, nlpVars, queueVars,
                   tokenVars, memVars, authVars>>

NextScheduler ==
    \/ ScheduleTask \/ CancelTask \/ StopAllTasks \/ Fire \/ Settle
    \/ Shutdown \/ SignalShutdown

(***************************************************************************)
(* core/queue                                                              *)
(***************************************************************************)
\* The module creates three bull queues and gives each one processor; it adds
\* jobs with an attempt limit and a backoff option.  The life of a job inside
\* bull (waiting, active, retried, failed for good) is not in the module: it is
\* modelled from the job-queue contract, PENDING -> ACTIVE -> COMPLETED, or
\* back to PENDING after a failure while attempts remain, else DEAD.  The
\* clock counts units of 5000 ms.
\* the attempts option of each add call
EventAttempts == 3
DocumentAttempts == 3
ReminderAttempts == 5
\* the backoff delay of each add call, in clock units
EventBackoffDelay == 1
DocumentBackoffDelay == 1
ReminderBackoffDelay == 2

\* holders: the workers executing the job; runs: the executions started
NewJob(queue, name, delay, attempts, backoffDelay) ==
    [queue |-> queue, name |-> name, state |-> "PENDING", attempts |-> 0,
     maxAttempts |-> attempts, backoff |-> [type |-> "exponential", delay |-> backoffDelay],
     nextRunAt |-> now + delay, holders |-> 0, runs |-> 0, retained |-> TRUE]

scheduleEventCreation(delay) ==
    jobs' = Append(jobs, NewJob("calendar-jobs", "create-event", delay,
                                EventAttempts, EventBackoffDelay))

scheduleDocumentCreation(delay) ==
    jobs' = Append(jobs, NewJob("docs-jobs", "create-document", delay,
                                DocumentAttempts, DocumentBackoffDelay))

scheduleReminder(delayMs) ==
    jobs' = Append(jobs, NewJob("notification-jobs", "send-reminder", delayMs,
                                ReminderAttempts, ReminderBackoffDelay))

\* what a processor call ends in: every processor logs, switches on job.name
\* and returns success; whatever throws inside its try block is logged and
\* thrown again
ProcessorOutcomes == {"returned", "threw"}

\* the delay option of an add call, in clock units
Delays == {0, 1}

\* the delay bull puts before a retry is computed inside bull from the backoff
\* option and the attempts made; it is left open here
RetryDelays == {0, 1}

\* the mutation: a job is on offer whatever its state, once its time has come
DueAnyState(queue) ==
    {j \in 1..Len(jobs) :
        jobs[j].queue = queue /\ jobs[j].holders = 0 /\ jobs[j].nextRunAt <= now}

\* the pending jobs of a queue that are due
Due(queue) ==
    {j \in 1..Len(jobs) :
        jobs[j].queue = queue /\ jobs[j].state = "PENDING" /\ jobs[j].nextRunAt <= now}

\* the states a job is counted in
JobStates == {"PENDING", "ACTIVE", "COMPLETED", "DEAD"}

\* queue.getJobCounts(): the jobs the queue holds, counted by state
getJobCounts(queue) ==
    [s \in JobStates |->
        Cardinality({j \in 1..Len(jobs) :
            jobs[j].queue = queue /\ jobs[j].retained /\ jobs[j].state = s})]

NoCounts == [q \in Queues |-> [s \in JobStates |-> 0]]
NoMetrics == [called |-> FALSE, threw |-> FALSE, counts |-> NoCounts, timestamp |-> 0]

InitQueue ==
    /\ jobs = <<>>
    /\ workers = [q \in Queues |-> 0]
    /\ now = 0
    /\ metrics = NoMetrics

\* the mutation: a worker takes a pending job before its time
acquireNotDue(queue, j) ==
    /\ workers[queue] < MaxWorkers
    /\ j \in 1..Len(jobs)
    /\ jobs[j].queue = queue /\ jobs[j].state = "PENDING"
    /\ jobs' = [jobs EXCEPT ![j].state = "ACTIVE", ![j].holders = @ + 1,
                            ![j].runs = @ + 1]
    /\ workers' = [workers EXCEPT ![queue] = @ + 1]
    /\ UNCHANGED now

\* the mutation: a worker takes a due job without marking it, so that it
\* stays on offer
acquireNoMark(queue, j) ==
    /\ workers[queue] < MaxWorkers
    /\ j \in Due(queue)
    /\ \A k \in Due(queue) : jobs[j].nextRunAt <= jobs[k].nextRunAt
    /\ jobs' = [jobs EXCEPT ![j].holders = @ + 1, ![j].runs = @ + 1]
    /\ workers' = [workers EXCEPT ![queue] = @ + 1]
    /\ UNCHANGED now

\* a free worker of the queue takes the earliest due pending job and runs the
\* queue's processor on it; taking and marking ACTIVE is one step
acquire(queue, j) ==
    /\ workers[queue] < MaxWorkers
    /\ j \in Due(queue)
    /\ \A k \in Due(queue) : jobs[j].nextRunAt <= jobs[k].nextRunAt
    /\ jobs' = [jobs EXCEPT ![j].state = "ACTIVE", ![j].holders = @ + 1,
                            ![j].runs = @ + 1]
    /\ workers' = [workers EXCEPT ![queue] = @ + 1]
    /\ UNCHANGED now

\* the mutation: a failure of one job fails the waiting jobs of its queue
finishFailureSpreads(j, outcome, delay) ==
    /\ j \in 1..Len(jobs)
    /\ jobs[j].holders > 0
    /\ LET attempts == jobs[j].attempts + 1
           spread == [k \in 1..Len(jobs) |->
                        IF k # j /\ jobs[k].queue = jobs[j].queue
                                 /\ jobs[k].state = "PENDING"
                        THEN [jobs[k] EXCEPT !.state = "DEAD"]
                        ELSE jobs[k]]
       IN  IF outcome = "returned"
           THEN jobs' = [jobs EXCEPT ![j].state = "COMPLETED", ![j].holders = @ - 1,
                                     ![j].retained = FALSE]
           ELSE IF attempts < jobs[j].maxAttempts
           THEN jobs' = [spread EXCEPT ![j].state = "PENDING", ![j].holders = @ - 1,
                                       ![j].attempts = attempts,
                                       ![j].nextRunAt = now + delay]
           ELSE jobs' = [spread EXCEPT ![j].state = "DEAD", ![j].holders = @ - 1,
                                       ![j].attempts = attempts]
    /\ workers' = [workers EXCEPT ![jobs[j].queue] = @ - 1]
    /\ UNCHANGED now

\* the mutation: a retry is timed from the delay alone, not from the clock
finishRetryFromZero(j, outcome, delay) ==
    /\ j \in 1..Len(jobs)
    /\ jobs[j].holders > 0
    /\ LET attempts == jobs[j].attempts + 1
       IN  IF outcome = "returned"
           THEN jobs' = [jobs EXCEPT ![j].state = "COMPLETED", ![j].holders = @ - 1,
                                     ![j].retained = FALSE]
           ELSE IF attempts < jobs[j].maxAttempts
           THEN jobs' = [jobs EXCEPT ![j].state = "PENDING", ![j].holders = @ - 1,
                                     ![j].attempts = attempts,
                                     ![j].nextRunAt = delay]
           ELSE jobs' = [jobs EXCEPT ![j].state = "DEAD", ![j].holders = @ - 1,
                                     ![j].attempts = attempts]
    /\ workers' = [workers EXCEPT ![jobs[j].queue] = @ - 1]
    /\ UNCHANGED now

\* the mutation: a job that failed is put back whatever its attempts
finishRetryAlways(j, outcome, delay) ==
    /\ j \in 1..Len(jobs)
    /\ jobs[j].holders > 0
    /\ IF outcome = "returned"
       THEN jobs' = [jobs EXCEPT ![j].state = "COMPLETED", ![j].holders = @ - 1,
                                 ![j].retained = FALSE]
       ELSE jobs' = [jobs EXCEPT ![j].state = "PENDING", ![j].holders = @ - 1,
                                 ![j].attempts = @ + 1,
                                 ![j].nextRunAt = now + delay]
    /\ workers' = [workers EXCEPT ![jobs[j].queue] = @ - 1]
    /\ UNCHANGED now

\* the processor call of a job in execution ends; removeOnComplete drops a
\* completed job from the queue, removeOnFail: false keeps a failed one
finish(j, outcome, delay) ==
    /\ j \in 1..Len(jobs)
    /\ jobs[j].holders > 0
    /\ LET attempts == jobs[j].attempts + 1
       IN  IF outcome = "returned"
           THEN jobs' = [jobs EXCEPT ![j].state = "COMPLETED", ![j].holders = @ - 1,
                                     ![j].retained = FALSE]
           ELSE IF attempts < jobs[j].maxAttempts
           THEN jobs' = [jobs EXCEPT ![j].state = "PENDING", ![j].holders = @ - 1,
                                     ![j].attempts = attempts,
                                     ![j].nextRunAt = now + delay]
           ELSE jobs' = [jobs EXCEPT ![j].state = "DEAD", ![j].holders = @ - 1,
                                     ![j].attempts = attempts]
    /\ workers' = [workers EXCEPT ![jobs[j].queue] = @ - 1]
    /\ UNCHANGED now

\* the attempts option of a job that a client of the module adds to the
\* exported notificationQueue itself
AttemptOptions == {1, 2}

\* notificationQueue.add('send-reminder', data, {delay, attempts})
addReminder(delay, attempts) ==
    jobs' = Append(jobs, NewJob("notification-jobs", "send-reminder", delay,
                                attempts, ReminderBackoffDelay))

\* the mutation: the failed jobs are cleaned away after they are counted
getQueueMetricsCleans(failed) ==
    /\ metrics' = IF failed
                  THEN [NoMetrics EXCEPT !.called = TRUE, !.threw = TRUE]
                  ELSE [called |-> TRUE, threw |-> FALSE,
                        counts |-> [q \in Queues |-> getJobCounts(q)],
                        timestamp |-> now]
    /\ jobs' = [j \in 1..Len(jobs) |->
                    IF jobs[j].state = "DEAD"
                    THEN [jobs[j] EXCEPT !.retained = FALSE]
                    ELSE jobs[j]]
    /\ UNCHANGED <<workers, now>>

\* the three getJobCounts calls and the answer built from them; when one of
\* them fails the error is logged and thrown again
getQueueMetrics(failed) ==
    /\ metrics' = IF failed
                  THEN [NoMetrics EXCEPT !.called = TRUE, !.threw = TRUE]
                  ELSE [called |-> TRUE, threw |-> FALSE,
                        counts |-> [q \in Queues |-> getJobCounts(q)],
                        timestamp |-> now]
    /\ UNCHANGED <<jobs, workers, now>>

ScheduleEventCreation ==
    /\ Len(jobs) < MaxJobs
    /\ \E d \in Delays : scheduleEventCreation(d)
    /\ UNCHANGED <<workers, now, metrics, routerVars, nlpVars, schedVars, tokenVars, memVars, authVars>>

ScheduleDocumentCreation ==
    /\ Len(jobs) < MaxJobs
    /\ \E d \in Delays : scheduleDocumentCreation(d)
    /\ UNCHANGED <<workers, now, metrics, routerVars, nlpVars, schedVars, tokenVars, memVars, authVars>>

ScheduleReminder ==
    /\ Len(jobs) < MaxJobs
    /\ \E d \in Delays : scheduleReminder(d)
    /\ UNCHANGED <<workers, now, metrics, routerVars, nlpVars, schedVars, tokenVars, memVars, authVars>>

Acquire ==
    /\ \E q \in Queues, j \in 1..Len(jobs) : acquire(q, j)
    /\ UNCHANGED <<metrics, routerVars, nlpVars, schedVars, tokenVars, memVars, authVars>>

Finish ==
    /\ \E j \in 1..Len(jobs), o \in ProcessorOutcomes, d \in RetryDelays : finish(j, o, d)
    /\ UNCHANGED <<metrics, routerVars, nlpVars, schedVars, tokenVars, memVars, authVars>>

Tick ==
    /\ now < MaxNow
    /\ now' = now + 1
    /\ UNCHANGED <<jobs, workers, metrics, routerVars, nlpVars, schedVars, tokenVars, memVars, authVars>>

NextQueue ==
    \/ ScheduleEventCreation \/ ScheduleDocumentCreation \/ ScheduleReminder
    \/ Acquire \/ Finish \/ Tick

AddReminder ==
    /\ Len(jobs) < MaxJobs
    /\ \E d \in Delays, a \in AttemptOptions : addReminder(d, a)
    /\ UNCHANGED <<workers, now, metrics, routerVars, nlpVars, schedVars, tokenVars, memVars, authVars>>

\* one call of getQueueMetrics, at any point; its answer is kept
GetQueueMetrics ==
    /\ ~metrics.called
    /\ \E failed \in BOOLEAN : getQueueMetrics(failed)
    /\ UNCHANGED <<routerVars, nlpVars, schedVars, tokenVars, memVars, authVars>>

\* the notification queue with jobs added by a client, and a call of
\* getQueueMetrics
NextMetrics ==
    \/ AddReminder \/ Acquire \/ Finish \/ Tick \/ GetQueueMetrics

(***************************************************************************)
(* core/auth: needsRefresh, handleTokenRefresh, refreshAccessToken.  Times *)
(* are kept in minutes.                                                    *)
(***************************************************************************)
\* the default of thresholdMinutes
RefreshThresholdMinutes == 5
\* Date.now() + 3600 * 1000, the expiry given when the answer has none
DefaultLifetimeMinutes == 60

ExpiresAts == {2, 6, 7, 8}
\* the tokens callers hold; refreshToken is '' when none was issued
Tokens ==
    [accessToken : {"old-access-token"}, refreshToken : {"refresh-token", EmptyString},
     expiresAt : ExpiresAts]
NoToken == [accessToken |-> Undefined, refreshToken |-> Undefined, expiresAt |-> 0]

\* what oAuth2Client.refreshAccessToken() does: it throws, or it resolves to
\* credentials; an absent expiry_date is 0
NoResponse ==
    [failed |-> FALSE, access_token |-> Undefined, refresh_token |-> Undefined,
     expiry_date |-> 0]
RefreshResponses ==
    {[NoResponse EXCEPT !.failed = TRUE]} \cup
    [failed : {FALSE}, access_token : {"new-access-token", Undefined},
     refresh_token : {"new-refresh-token", Undefined}, expiry_date : {0, 6, 9}]
RefreshError == "invalid_grant"

\* the mutation: the token is refreshed from the threshold instant on
needsRefreshInclusive(expiresAt, thresholdMinutes) ==
    clock >= expiresAt - thresholdMinutes

\* Date.now() > expiresAt - thresholdMs
needsRefresh(expiresAt, thresholdMinutes) ==
    clock > expiresAt - thresholdMinutes

\* the mutation: without a new refresh token the result has none
refreshAccessTokenNoFallback(refreshToken, response) ==
    [accessToken |-> OrElse(response.access_token, EmptyString),
     refreshToken |-> OrElse(response.refresh_token, EmptyString),
     expiresAt |-> IF response.expiry_date = 0
                   THEN clock + DefaultLifetimeMinutes
                   ELSE response.expiry_date]

\* the token built from the credentials of a refresh that did not throw
refreshAccessToken(refreshToken, response) ==
    [accessToken |-> OrElse(response.access_token, EmptyString),
     refreshToken |-> OrElse(response.refresh_token, refreshToken),
     expiresAt |-> IF response.expiry_date = 0
                   THEN clock + DefaultLifetimeMinutes
                   ELSE response.expiry_date]

\* a call of handleTokenRefresh: the token given, the time, the refresh tokens
\* refreshAccessToken was called with, the answer each call got, and what the
\* call returned or threw
NoTokenCall ==
    [called |-> FALSE, token |-> NoToken, at |-> 0, refreshCalls |-> <<>>,
     response |-> NoResponse, returned |-> NoToken, threw |-> Undefined]

\* the mutation: a refresh that fails is tried once more and, failing again,
\* answered with the token given
handleTokenRefreshRetry(token, response) ==
    LET call == [NoTokenCall EXCEPT !.called = TRUE, !.token = token, !.at = clock]
    IN  IF needsRefresh(token.expiresAt, RefreshThresholdMinutes)
           /\ ~Falsy(token.refreshToken)
        THEN IF response.failed
             THEN [call EXCEPT !.refreshCalls = <<token.refreshToken, token.refreshToken>>,
                               !.response = response,
                               !.returned = token]
             ELSE [call EXCEPT !.refreshCalls = <<token.refreshToken>>,
                               !.response = response,
                               !.returned = refreshAccessToken(token.refreshToken, response)]
        ELSE [call EXCEPT !.returned = token]

\* response: what the refresh answers if it is made; an error of
\* refreshAccessToken is logged and thrown again
handleTokenRefresh(token, response) ==
    LET call == [NoTokenCall EXCEPT !.called = TRUE, !.token = token, !.at = clock]
    IN  IF needsRefresh(token.expiresAt, RefreshThresholdMinutes)
           /\ ~Falsy(token.refreshToken)
        THEN IF response.failed
             THEN [call EXCEPT !.refreshCalls = <<token.refreshToken>>,
                               !.response = response,
                               !.threw = RefreshError]
             ELSE [call EXCEPT !.refreshCalls = <<token.refreshToken>>,
                               !.response = response,
                               !.returned = refreshAccessToken(token.refreshToken, response)]
        ELSE [call EXCEPT !.returned = token]

InitToken ==
    /\ clock = 0
    /\ tok = NoTokenCall

HandleTokenRefresh ==
    /\ \E t \in Tokens, a \in RefreshResponses : tok' = handleTokenRefresh(t, a)
    /\ UNCHANGED <<clock, routerVars, nlpVars, schedVars, queueVars, memVars, authVars>>

\* time passes
TokenTick ==
    /\ clock < MaxClock
    /\ clock' = clock + 1
    /\ UNCHANGED <<tok, routerVars, nlpVars, schedVars, queueVars, memVars, authVars>>

NextToken == HandleTokenRefresh \/ TokenTick

\* the caller keeps the token a call returned and gives it to the next call
RefreshHeld ==
    /\ tok.called /\ tok.returned # NoToken
    /\ \E a \in RefreshResponses : tok' = handleTokenRefresh(tok.returned, a)
    /\ UNCHANGED <<clock, routerVars, nlpVars, schedVars, queueVars, memVars, authVars>>

\* a credential carried from one call of handleTokenRefresh to the next
NextRefresh == HandleTokenRefresh \/ RefreshHeld \/ TokenTick

(***************************************************************************)
(* core/memory: the conversation history and the context of each user.    *)
(* The three stores are plain objects, so that a user id or a key that     *)
(* names a member of Object.prototype finds the inherited member.          *)
(***************************************************************************)
\* const maxHistoryItems = 100
maxHistoryItems == 100
\* the number of storeMessage calls made for one user
MaxStores == 110

\* "toString" names a member that every plain object inherits
HistoryUsers == {"alice", "bob", "toString"}
\* limit: number = 10
DefaultLimit == 10
\* the limit argument of getHistory; a call without it has the default
Limits == {0, 1, DefaultLimit, 150}

\* Array.prototype.slice(start) with an integer start; -0 is 0
slice(array, start) ==
    LET len == Len(array)
        k == IF start < 0
             THEN (IF len + start > 0 THEN len + start ELSE 0)
             ELSE (IF start < len THEN start ELSE len)
    IN  SubSeq(array, k + 1, len)

\* historyStore[userId] is an own array, or the inherited function, or undefined
HistoryInherited(userId) ==
    ~historyStore[userId].present /\ userId \in ProtoNames

NoHistoryCall ==
    [op |-> "none", userId |-> Undefined, limit |-> 0, threw |-> FALSE,
     result |-> <<>>]

InitHistory ==
    /\ historyStore = [u \in HistoryUsers |-> [present |-> FALSE, items |-> <<>>]]
    /\ stored = [u \in HistoryUsers |-> 0]
    /\ histCall = NoHistoryCall

\* the mutation: the oldest messages are kept
storeMessageKeepOldest(userId, message, role) ==
    IF HistoryInherited(userId)
    THEN UNCHANGED historyStore
    ELSE LET pushed == Append(historyStore[userId].items,
                              [message |-> message, role |-> role])
         IN  historyStore' =
                [historyStore EXCEPT ![userId] =
                    [present |-> TRUE,
                     items |-> IF Len(pushed) > maxHistoryItems
                               THEN SubSeq(pushed, 1, maxHistoryItems)
                               ELSE pushed]]

\* push on the inherited function is a TypeError, logged and thrown again
storeMessage(userId, message, role) ==
    IF HistoryInherited(userId)
    THEN UNCHANGED historyStore
    ELSE LET pushed == Append(historyStore[userId].items,
                              [message |-> message, role |-> role])
         IN  historyStore' =
                [historyStore EXCEPT ![userId] =
                    [present |-> TRUE,
                     items |-> IF Len(pushed) > maxHistoryItems
                               THEN slice(pushed, 0 - maxHistoryItems)
                               ELSE pushed]]

\* what getHistory answers; slice on the inherited function is a TypeError
getHistory(userId, limit) ==
    IF HistoryInherited(userId)
    THEN [threw |-> TRUE, result |-> <<>>]
    ELSE IF ~historyStore[userId].present
    THEN [threw |-> FALSE, result |-> <<>>]
    ELSE [threw |-> FALSE,
          result |-> slice(historyStore[userId].items, 0 - limit)]

\* the message of a call is named by its place among the calls for the user
StoreMessage ==
    \E userId \in HistoryUsers :
        /\ stored[userId] < MaxStores
        /\ storeMessage(userId, stored[userId] + 1, "user")
        /\ stored' = [stored EXCEPT ![userId] =
                        IF HistoryInherited(userId) THEN @ ELSE @ + 1]
        /\ histCall' = [NoHistoryCall EXCEPT !.op = "storeMessage",
                            !.userId = userId,
                            !.threw = HistoryInherited(userId)]
        /\ UNCHANGED <<contextStore, ctxCall, routerVars, nlpVars, schedVars,
                       queueVars, tokenVars, authVars>>

GetHistory ==
    \E userId \in HistoryUsers, limit \in Limits :
        /\ histCall' = [op |-> "getHistory", userId |-> userId, limit |-> limit,
                        threw |-> getHistory(userId, limit).threw,
                        result |-> getHistory(userId, limit).result]
        /\ UNCHANGED <<historyStore, stored, contextStore, ctxCall, routerVars,
                       nlpVars, schedVars, queueVars, tokenVars, authVars>>

NextHistory == StoreMessage \/ GetHistory

\* a user with a context of its own, and one whose id names an inherited member
ContextUsers == {"alice", "toString"}
ContextKeys == {"k1", "toString", EmptyString}
ContextValues == {"v1", EmptyString}
\* no own property of that name
Absent == "<absent>"
Null == "<null>"

NoEntries == [k \in ContextKeys |-> Absent]

\* contextStore[userId] is truthy: an own object, or the inherited function
HasContext(userId) == contextStore[userId].present \/ userId \in ProtoNames

\* contextStore[userId][key] is truthy: an own entry {value, timestamp}, or an
\* inherited function
HasEntry(userId, key) ==
    contextStore[userId].entries[key] # Absent \/ key \in ProtoNames

NoContextCall ==
    [op |-> "none", userId |-> Undefined, key |-> Undefined, value |-> Undefined,
     result |-> Undefined]

InitContext ==
    /\ contextStore = [u \in ContextUsers |-> [present |-> FALSE, entries |-> NoEntries]]
    /\ ctxCall = NoContextCall

\* the entry is put on contextStore[userId]: the own object, made when there
\* is none, or the inherited function, which stays inherited
storeContext(userId, key, value) ==
    contextStore' =
        [contextStore EXCEPT ![userId] =
            [present |-> @.present \/ ~HasContext(userId),
             entries |-> [@.entries EXCEPT ![key] = value]]]

\* the value property of an inherited function is undefined
getContext(userId, key) ==
    IF ~HasContext(userId) \/ ~HasEntry(userId, key)
    THEN Null
    ELSE IF contextStore[userId].entries[key] # Absent
    THEN contextStore[userId].entries[key]
    ELSE Undefined

\* delete removes own properties only; an empty key is falsy, as no key is
clearContext(userId, key) ==
    IF ~HasContext(userId)
    THEN UNCHANGED contextStore
    ELSE IF ~Falsy(key)
    THEN contextStore' = [contextStore EXCEPT ![userId].entries[key] = Absent]
    ELSE IF contextStore[userId].present
    THEN contextStore' = [contextStore EXCEPT ![userId] =
                            [present |-> FALSE, entries |-> NoEntries]]
    ELSE UNCHANGED contextStore

StoreContext ==
    \E userId \in ContextUsers, key \in ContextKeys, value \in ContextValues :
        /\ storeContext(userId, key, value)
        /\ ctxCall' = [NoContextCall EXCEPT !.op = "storeContext",
                            !.userId = userId, !.key = key, !.value = value]
        /\ UNCHANGED <<historyStore, stored, histCall, routerVars, nlpVars,
                       schedVars, queueVars, tokenVars, authVars>>

GetContext ==
    \E userId \in ContextUsers, key \in ContextKeys :
        /\ ctxCall' = [NoContextCall EXCEPT !.op = "getContext",
                            !.userId = userId, !.key = key,
                            !.result = getContext(userId, key)]
        /\ UNCHANGED <<contextStore, historyStore, stored, histCall, routerVars,
                       nlpVars, schedVars, queueVars, tokenVars, authVars>>

ClearContext ==
    \E userId \in ContextUsers, key \in ContextKeys \cup {Undefined} :
        /\ clearContext(userId, key)
        /\ ctxCall' = [NoContextCall EXCEPT !.op = "clearContext",
                            !.userId = userId, !.key = key]
        /\ UNCHANGED <<historyStore, stored, histCall, routerVars, nlpVars,
                       schedVars, queueVars, tokenVars, authVars>>

NextContext == StoreContext \/ GetContext \/ ClearContext

(***************************************************************************)
(* core/auth middleware and the MCP route: authenticate, requireRole, and  *)
(* router.use('/v1/mcp', authenticate, mcpRouter).                         *)
(***************************************************************************)
\* req.headers.authorization
AuthHeaders ==
    {Undefined, "Basic abc", "Bearer ", "Bearer expired", "Bearer nosub",
     "Bearer good"}

\* authHeader.startsWith('Bearer ')
startsWithBearer(authHeader) ==
    authHeader \in {"Bearer ", "Bearer expired", "Bearer nosub", "Bearer good"}

\* authHeader.split(' ')[1]
TokenOf(authHeader) ==
    CASE authHeader = "Bearer " -> EmptyString
      [] authHeader = "Bearer expired" -> "expired"
      [] authHeader = "Bearer nosub" -> "nosub"
      [] authHeader = "Bearer good" -> "good"
      [] OTHER -> Undefined

\* the tokens jwt.verify accepts, and the payload it decodes
Verifiable == {"nosub", "good"}
Decoded(token) ==
    IF token = "good" THEN [sub |-> "user-123"] ELSE [sub |-> Undefined]

NoUser == [present |-> FALSE, id |-> Undefined, role |-> Undefined]

\* the mutation: a request without a valid token is let through
authenticateOpen(authHeader) ==
    IF /\ ~Falsy(authHeader) /\ startsWithBearer(authHeader)
       /\ TokenOf(authHeader) \in Verifiable
       /\ ~Falsy(Decoded(TokenOf(authHeader)).sub)
    THEN [user |-> [present |-> TRUE, id |-> Decoded(TokenOf(authHeader)).sub,
                    role |-> Undefined],
          nextCalls |-> <<NoError>>]
    ELSE [user |-> NoUser, nextCalls |-> <<NoError>>]

\* whatever is thrown inside the try block (by the header test, by
\* verifySessionToken, by extractUserId) is caught, and next gets a new error
authenticate(authHeader) ==
    IF /\ ~Falsy(authHeader) /\ startsWithBearer(authHeader)
       /\ TokenOf(authHeader) \in Verifiable
       /\ ~Falsy(Decoded(TokenOf(authHeader)).sub)
    THEN [user |-> [present |-> TRUE, id |-> Decoded(TokenOf(authHeader)).sub,
                    role |-> Undefined],
          nextCalls |-> <<NoError>>]
    ELSE [user |-> NoUser,
          nextCalls |-> <<createApiError(401, "Invalid or expired authentication token")>>]

\* req.user of a request given to requireRole
Roles == {"user", "admin", "editor"}
RoleUsers ==
    {NoUser} \cup
    {[present |-> TRUE, id |-> "user-123", role |-> r] :
        r \in Roles \cup {Undefined, EmptyString}}

\* `Required role: ${requiredRole}`
RequiredRoleMessage(requiredRole) ==
    CASE requiredRole = "user" -> "Required role: user"
      [] requiredRole = "admin" -> "Required role: admin"
      [] requiredRole = "editor" -> "Required role: editor"

\* the mutation: an administrator is held to the required role too
requireRoleExact(requiredRole, user) ==
    IF ~user.present
    THEN <<createApiError(401, "Authentication required")>>
    ELSE IF OrElse(user.role, "user") # requiredRole
    THEN <<createApiError(403, RequiredRoleMessage(requiredRole))>>
    ELSE <<NoError>>

\* the calls of next that the middleware requireRole(requiredRole) makes
requireRole(requiredRole, user) ==
    IF ~user.present
    THEN <<createApiError(401, "Authentication required")>>
    ELSE IF OrElse(user.role, "user") # requiredRole /\ OrElse(user.role, "user") # "admin"
    THEN <<createApiError(403, RequiredRoleMessage(requiredRole))>>
    ELSE <<NoError>>

NoHttp == [pc |-> "new", authorization |-> Undefined, user |-> NoUser, nextCalls |-> <<>>]
NoRbac == [called |-> FALSE, requiredRole |-> Undefined, user |-> NoUser, nextCalls |-> <<>>]

InitAuth ==
    /\ http = NoHttp
    /\ rbac = NoRbac

\* a request arrives on the route and authenticate runs on it
Authenticate ==
    /\ http.pc = "new"
    /\ \E authHeader \in AuthHeaders :
            http' = [pc |-> IF authenticate(authHeader).nextCalls = <<NoError>>
                            THEN "passed" ELSE "failed",
                     authorization |-> authHeader,
                     user |-> authenticate(authHeader).user,
                     nextCalls |-> authenticate(authHeader).nextCalls]
    /\ UNCHANGED <<rbac, routerVars, nlpVars, schedVars, queueVars, tokenVars,
                   memVars>>

RequireRole ==
    /\ \E requiredRole \in Roles, user \in RoleUsers :
            rbac' = [called |-> TRUE, requiredRole |-> requiredRole, user |-> user,
                     nextCalls |-> requireRole(requiredRole, user)]
    /\ UNCHANGED <<http, routerVars, nlpVars, schedVars, queueVars, tokenVars,
                   memVars>>

\* mcpRouter comes after authenticate on the route: it gets the request when
\* authenticate has called next without an error, and processCommand runs
Dispatch ==
    /\ http.pc = "passed"
    /\ \E c \in BodyCommands, p \in BodyParameters, o \in HandlerOutcomes,
          e \in HandlerErrors :
            processCommandStart(1, c, p, o, e)
    /\ UNCHANGED <<lastReg, authVars, nlpVars, schedVars, queueVars, tokenVars,
                   memVars>>

NextAuth == Authenticate \/ RequireRole
NextRoute == RegisterHandler \/ Authenticate \/ Dispatch \/ ProcessCommandSettle

Init ==
    /\ InitRouter /\ InitIntent /\ InitScheduler /\ InitQueue /\ InitToken
    /\ InitHistory /\ InitContext /\ InitAuth

SpecRouter == Init /\ [][NextRouter]_vars
SpecIntent == Init /\ [][NextIntent]_vars
SpecScheduler == Init /\ [][NextScheduler]_vars
SpecQueue == Init /\ [][NextQueue]_vars
SpecMetrics == Init /\ [][NextMetrics]_vars
SpecToken == Init /\ [][NextToken]_vars
SpecRefresh == Init /\ [][NextRefresh]_vars
SpecHistory == Init /\ [][NextHistory]_vars
SpecContext == Init /\ [][NextContext]_vars
SpecAuth == Init /\ [][NextAuth]_vars
SpecRoute == Init /\ [][NextRoute]_vars

(***************************************************************************)
(* Properties of the router.                                               *)
(***************************************************************************)
\* C2: a name's registered handler is always the one of the latest
\* registerHandler call for it; a command whose name has been registered
\* invokes exactly that handler; and a registration for one name leaves the
\* handler of every other name as it was.
C2_LastRegistrationWins ==
    /\ [](\A c \in CommandNames : lastReg[c] # Undefined => handlers[c] = lastReg[c])
    /\ [][\A r \in 1..MaxReqs :
            (/\ reqs[r].pc = "new"
             /\ reqs'[r].invoked # <<>>
             /\ reqs'[r].command \in CommandNames
             /\ lastReg[reqs'[r].command] # Undefined)
            => reqs'[r].invoked = <<lastReg[reqs'[r].command]>>]_vars
    /\ [][\A c \in CommandNames :
            lastReg'[c] = lastReg[c] => handlers'[c] = handlers[c]]_vars

\* C2 witness: one name was registered again (the overwrite was logged), a
\* command ran the earlier handler h1 and a later one the handler h2 that
\* replaced it.
C2_Witness ==
    /\ "calendar.event.create" \in warned
    /\ handlers["calendar.event.create"] = "h2"
    /\ reqs[1].command = "calendar.event.create" /\ reqs[1].invoked = <<"h1">>
    /\ reqs[2].command = "calendar.event.create" /\ reqs[2].invoked = <<"h2">>

\* C8: a processed request with no command gave next exactly the 400
\* "Missing command" error and invoked no handler.
C8_MissingCommand ==
    \A r \in 1..MaxReqs :
        (reqs[r].pc = "done" /\ reqs[r].command = Undefined)
        => /\ reqs[r].nextCalls =
                <<createApiError(400, "Missing command field in request body")>>
           /\ reqs[r].invoked = <<>>

\* C8 witness: a request with no command was processed while handlers were
\* registered for every name.
C8_Witness ==
    /\ \A c \in CommandNames : handlers[c] # Undefined
    /\ \E r \in 1..MaxReqs :
        /\ reqs[r].pc = "done" /\ reqs[r].command = Undefined
        /\ Len(reqs[r].nextCalls) = 1 /\ reqs[r].nextCalls[1].statusCode = 400

\* C10: when the handler threw or rejected, next received that error, once,
\* the handler was invoked once, and processCommand's own promise did not
\* reject.
C10_HandlerErrorPropagates ==
    \A r \in 1..MaxReqs :
        (reqs[r].pc = "done" /\ reqs[r].thrown # NoError)
        => /\ reqs[r].nextCalls = <<reqs[r].thrown>>
           /\ Len(reqs[r].invoked) = 1
           /\ ~reqs[r].rejected

\* C10 witness: both requests ended with a handler error handed to next.
C10_Witness ==
    /\ reqs[1].pc = "done" /\ reqs[1].nextCalls = <<HandlerError("Handler error")>>
    /\ reqs[2].pc = "done" /\ reqs[2].nextCalls = <<HandlerError("Other handler error")>>

C4_UnknownIntent ==
    (result.returned /\ ~intent.isNull /\ intent.type = "UNKNOWN" /\ intent.confidence >= 50)
    => /\ ~result.success
       /\ result.error.code = "UNKNOWN_INTENT"

\* C4 witness: an UNKNOWN intent of confidence 0.9 was answered UNKNOWN_INTENT.
C4_Witness ==
    /\ result.returned /\ ~intent.isNull
    /\ intent.type = "UNKNOWN" /\ intent.confidence = 90
    /\ result.error.code = "UNKNOWN_INTENT"

\* C5: an UNKNOWN intent gets success=false with UNKNOWN_INTENT whatever its
\* confidence, also below 0.5.
C5_UnknownIntentAnyConfidence ==
    (result.returned /\ ~intent.isNull /\ intent.type = "UNKNOWN")
    => /\ ~result.success
       /\ result.error.code = "UNKNOWN_INTENT"

(***************************************************************************)
(* Properties of the scheduler.                                            *)
(***************************************************************************)
\* C6: no name ever has two running timers; when scheduleTask has returned
\* true, exactly one timer of that name runs, it is the registered one and it
\* runs the task and expression just given; and a timer that fires is the one
\* registered under its name, so a replaced task does not fire again.
C6_TriggerReplacement ==
    /\ \A n \in TaskNames : Cardinality({t \in timers : t.name = n}) <= 1
    /\ (lastCall.op = "scheduleTask" /\ lastCall.result)
        => {t \in timers : t.name = lastCall.name} =
                {[id |-> scheduledTasks[lastCall.name], name |-> lastCall.name,
                  expr |-> lastCall.expr, task |-> lastCall.task]}
    /\ lastCall.op = "fire" => scheduledTasks[lastCall.name] = lastCall.timer

\* C6 witness: scheduleTask("x", expr2, f2) has just replaced an earlier
\* timer of "x" and the timer running f2 on expr2 is installed.
C6_Witness ==
    /\ lastCall.op = "scheduleTask" /\ lastCall.result
    /\ lastCall.name = "x" /\ lastCall.replaced # NoTimer
    /\ \E t \in timers : t.name = "x" /\ t.task = "f2" /\ t.expr = "0 0 * * *"

(***************************************************************************)
(* Properties of the job queue.                                            *)
(***************************************************************************)
\* C1: no job has more attempts or more executions than its attempt limit;
\* executions and failed attempts alternate (a pending job has failed every
\* execution so far, an active one is in execution attempts + 1); a dead job
\* has failed exactly limit executions; and a job none of whose executions
\* returned is retained and, once its limit is used up, DEAD.
C1_AttemptsBounded ==
    \A j \in 1..Len(jobs) :
        /\ jobs[j].attempts <= jobs[j].maxAttempts
        /\ jobs[j].runs <= jobs[j].maxAttempts
        /\ jobs[j].state = "PENDING" =>
                jobs[j].runs = jobs[j].attempts /\ jobs[j].attempts < jobs[j].maxAttempts
        /\ jobs[j].state = "ACTIVE" => jobs[j].runs = jobs[j].attempts + 1
        /\ jobs[j].state = "DEAD" =>
                jobs[j].runs = jobs[j].maxAttempts /\ jobs[j].attempts = jobs[j].maxAttempts
        /\ (jobs[j].runs = jobs[j].maxAttempts /\ jobs[j].attempts = jobs[j].runs)
                => jobs[j].state = "DEAD"

\* C1 witness: an event job (limit 3) is DEAD after three failed executions.
C1_Witness ==
    \E j \in 1..Len(jobs) :
        /\ jobs[j].name = "create-event" /\ jobs[j].maxAttempts = 3
        /\ jobs[j].state = "DEAD" /\ jobs[j].runs = 3 /\ jobs[j].attempts = 3

\* C9: a job is in execution by at most one worker, and by exactly one when
\* and only when it is ACTIVE; the busy workers of a queue are its active jobs.
C9_ExclusiveAcquisition ==
    /\ \A j \in 1..Len(jobs) :
        /\ jobs[j].holders <= 1
        /\ jobs[j].state = "ACTIVE" <=> jobs[j].holders = 1
    /\ \A q \in Queues :
        workers[q] = Cardinality({j \in 1..Len(jobs) :
                                    jobs[j].queue = q /\ jobs[j].state = "ACTIVE"})

\* C9 witness: a job is ACTIVE, in its second execution, while another worker
\* of its queue is free and a second job of the queue waits for its time.
C9_Witness ==
    /\ Len(jobs) = 2
    /\ jobs[1].queue = jobs[2].queue
    /\ jobs[1].state = "ACTIVE" /\ jobs[1].holders = 1 /\ jobs[1].attempts = 1
    /\ jobs[2].state = "PENDING" /\ jobs[2].nextRunAt > now
    /\ workers[jobs[1].queue] < MaxWorkers

(***************************************************************************)
(* Further properties of the router.                                       *)
(***************************************************************************)
\* C11: processCommand for a command name that no registerHandler call has
\* named hands next exactly the 404 "No handler registered" error and invokes
\* no handler.
C11_UnregisteredCommand ==
    [][\A r \in 1..MaxReqs :
        (/\ reqs[r].pc = "new" /\ reqs'[r].pc # "new"
         /\ ~Falsy(reqs'[r].command)
         /\ \/ reqs'[r].command \notin CommandNames
            \/ lastReg[reqs'[r].command] = Undefined)
        => /\ reqs'[r].nextCalls =
                <<createApiError(404, "No handler registered for command")>>
           /\ reqs'[r].invoked = <<>>]_vars

(***************************************************************************)
(* Further properties of the scheduler.                                    *)
(***************************************************************************)
\* C12: scheduleTask with an invalid cron expression returns false, runs
\* nothing (also when an immediate run was asked for) and leaves the registry
\* and the running timers as they were, so that a timer installed under the
\* same name stays installed and can still fire.
C12_InvalidCronNoEffect ==
    [][(lastCall'.op = "scheduleTask" /\ ~validate(lastCall'.expr))
        => /\ ~lastCall'.result
           /\ ~lastCall'.ran
           /\ timers' = timers
           /\ scheduledTasks' = scheduledTasks
           /\ nextTimer' = nextTimer]_vars

\* C12 witness: scheduleTask("x", invalid, f2, immediate) has just returned
\* false while the timer installed under "x" before still runs f1.
C12_Witness ==
    /\ lastCall.op = "scheduleTask" /\ ~validate(lastCall.expr)
    /\ lastCall.name = "x" /\ lastCall.task = "f2" /\ lastCall.immediate
    /\ ~lastCall.result
    /\ scheduledTasks["x"] # NoTimer
    /\ \E t \in timers : t.id = scheduledTasks["x"] /\ t.task = "f1"

\* C13: a task that throws or rejects, in a firing or in the immediate run,
\* has its error caught inside the wrapper, whose own promise never rejects;
\* a firing leaves the registry and every running timer as they were, so the
\* same timer and the others fire again.
C13_TaskErrorContained ==
    /\ [](lastCall.ran =>
            /\ ~lastCall.run.escaped
            /\ lastCall.run.outcome # "returned" => lastCall.run.caught)
    /\ [][lastCall'.op \in {"fire", "settle"}
            => timers' = timers /\ scheduledTasks' = scheduledTasks]_vars
    /\ [](\A i \in taskErrors : \E t \in timers : t.id = i)

\* C13 witness: a timer one of whose earlier firings ended in an error has
\* just fired again and its task returned, while a second timer whose task
\* failed too is still running.
C13_Witness ==
    /\ lastCall.op = "settle" /\ lastCall.run.outcome = "returned"
    /\ lastCall.timer \in taskErrors
    /\ \E t \in timers : t.id # lastCall.timer /\ t.id \in taskErrors

\* C15: once the process has begun exiting, no timer is left installed and no
\* queue connection is left open.
C15_ExitLeavesNothing ==
    exited => timers = {} /\ queuesOpen = {}

(***************************************************************************)
(* Further properties of the job queue.                                    *)
(***************************************************************************)
\* C14: the nextRunAt of a job never decreases; each re-queue after a failed
\* attempt gives it a value not earlier than the one of the previous attempt.
C14_NextRunAtMonotone ==
    [][\A j \in 1..Len(jobs) :
        /\ j <= Len(jobs')
        /\ jobs'[j].nextRunAt >= jobs[j].nextRunAt]_vars

\* C14 witness: a job that first ran at time 0 was put back twice after
\* failed attempts and now waits for a later time.
C14_Witness ==
    \E j \in 1..Len(jobs) :
        /\ jobs[j].state = "PENDING" /\ jobs[j].attempts = 2
        /\ jobs[j].nextRunAt > now

(***************************************************************************)
(* Further properties of processIntent.                                    *)
(***************************************************************************)
\* C18: an intent with confidence at least 0.5 whose type is any supported
\* action other than UNKNOWN has the domain action of that type run and gets
\* its result, success=true; UNKNOWN_INTENT is answered for type UNKNOWN only.
C18_EverySupportedTypeDispatched ==
    (result.returned /\ ~intent.isNull /\ intent.confidence >= 50)
    => /\ intent.type # "UNKNOWN" =>
            /\ result.success
            /\ result.data.intent = intent.type
            /\ domainActions = <<intent.type>>
       /\ (~result.success /\ result.error.code = "UNKNOWN_INTENT")
            => intent.type = "UNKNOWN"

\* C19: processIntent never throws; a null intent is answered
\* PROCESSING_ERROR; and every result is either success=true with data and no
\* error, or success=false with an error code and message and no data.
C19_NeverThrowsWellFormed ==
    /\ ~result.threw
    /\ (result.returned /\ intent.isNull)
        => ~result.success /\ result.error.code = "PROCESSING_ERROR"
    /\ result.returned =>
        \/ /\ result.success
           /\ result.data # NoData /\ result.data.message # Undefined
           /\ result.error = NoResultError
        \/ /\ ~result.success
           /\ result.data = NoData
           /\ result.error.code # Undefined /\ result.error.message # Undefined

\* C19 witness: a null intent was processed and answered PROCESSING_ERROR.
C19_Witness ==
    /\ intent = NullIntent
    /\ result.returned /\ ~result.success
    /\ result.error.code = "PROCESSING_ERROR"

(***************************************************************************)
(* Properties of the token refresh.                                        *)
(***************************************************************************)
\* C16: handleTokenRefresh calls the refresh exactly when the time of the
\* call is past expiresAt minus the 5-minute threshold and the token has a
\* refresh token; in every other case, also for a token without refresh token
\* that is about to expire or has expired, it returns the very token given.
C16_RefreshOnlyWhenDue ==
    tok.called =>
        LET due == tok.at > tok.token.expiresAt - RefreshThresholdMinutes
            has == tok.token.refreshToken # EmptyString
        IN  /\ (tok.refreshCalls # <<>>) <=> (due /\ has)
            /\ ~(due /\ has) =>
                    /\ tok.returned = tok.token
                    /\ tok.threw = Undefined

\* C16 witness: a token without refresh token that had already expired was
\* handed back as it was, with no refresh call.
C16_Witness ==
    /\ tok.called
    /\ tok.token.refreshToken = EmptyString
    /\ tok.at > tok.token.expiresAt
    /\ tok.returned = tok.token /\ tok.refreshCalls = <<>>

\* C17: when a refresh is due and a refresh token is present, the refresh is
\* called once, with that refresh token; if it answers, the call returns the
\* token built from the answer; if it fails, the call throws that failure and
\* returns no token.
C17_RefreshOnceOrFail ==
    (/\ tok.called
     /\ tok.at > tok.token.expiresAt - RefreshThresholdMinutes
     /\ tok.token.refreshToken # EmptyString)
    => /\ tok.refreshCalls = <<tok.token.refreshToken>>
       /\ ~tok.response.failed =>
            /\ tok.threw = Undefined
            /\ tok.returned.accessToken = OrElse(tok.response.access_token, EmptyString)
            /\ tok.returned.expiresAt \in
                    {tok.response.expiry_date, tok.at + DefaultLifetimeMinutes}
            /\ tok.returned.expiresAt > tok.at
       /\ tok.response.failed =>
            /\ tok.threw = RefreshError
            /\ tok.returned = NoToken

\* C17 witness: the refresh of a token within the threshold failed; the call
\* threw after the one refresh call and returned nothing.
C17_Witness ==
    /\ tok.called /\ tok.response.failed
    /\ tok.token.expiresAt = 7 /\ tok.at = 3
    /\ tok.refreshCalls = <<"refresh-token">>
    /\ tok.threw = RefreshError /\ tok.returned = NoToken

\* C21: a job that is COMPLETED or DEAD is never executed again and never
\* changes; a DEAD job is retained (removeOnFail: false).
C21_TerminalStates ==
    /\ [][\A j \in 1..Len(jobs) :
            jobs[j].state \in {"COMPLETED", "DEAD"}
            => j <= Len(jobs') /\ jobs'[j] = jobs[j]]_vars
    /\ [](\A j \in 1..Len(jobs) :
            /\ jobs[j].state \in {"COMPLETED", "DEAD"} => jobs[j].holders = 0
            /\ jobs[j].state = "DEAD" => jobs[j].retained)

\* C21 witness: of two due jobs of one queue one is DEAD and one COMPLETED
\* while the workers of the queue are free.
C21_Witness ==
    /\ Len(jobs) = 2
    /\ jobs[1].queue = jobs[2].queue
    /\ jobs[1].state = "DEAD" /\ jobs[1].retained /\ jobs[1].nextRunAt <= now
    /\ jobs[2].state = "COMPLETED" /\ jobs[2].nextRunAt <= now
    /\ workers[jobs[1].queue] = 0

\* C22: an execution that ends in a processor exception changes that job
\* only, to PENDING for a retry or to DEAD; every other job, the number of
\* jobs and the busy workers of the other queues stay as they were.
C22_FailureStaysInJob ==
    [][\A j \in 1..Len(jobs) :
        (j <= Len(jobs') /\ jobs'[j].attempts > jobs[j].attempts)
        => /\ jobs'[j].state \in {"PENDING", "DEAD"}
           /\ Len(jobs') = Len(jobs)
           /\ \A k \in 1..Len(jobs) : k # j => jobs'[k] = jobs[k]
           /\ \A q \in Queues : q # jobs[j].queue => workers'[q] = workers[q]]_vars

\* C22 witness: a job has failed once and waits for its retry while a job of
\* the same queue still waits untouched and its first run is yet to come.
C22_Witness ==
    /\ Len(jobs) = 2
    /\ jobs[1].queue = jobs[2].queue
    /\ jobs[1].state = "PENDING" /\ jobs[1].attempts = 1
    /\ jobs[2].state = "PENDING" /\ jobs[2].attempts = 0 /\ jobs[2].runs = 0

C23_CancelTask ==
    /\ [][lastCall'.op = "cancelTask"
            => LET n == lastCall'.name
               IN  IF scheduledTasks[n] # NoTimer
                   THEN /\ lastCall'.result
                        /\ timers' = {t \in timers : t.id # scheduledTasks[n]}
                        /\ scheduledTasks' = [scheduledTasks EXCEPT ![n] = NoTimer]
                   ELSE /\ ~lastCall'.result
                        /\ timers' = timers
                        /\ scheduledTasks' = scheduledTasks]_vars
    /\ [](\A t \in timers : scheduledTasks[t.name] = t.id)
    /\ [][lastCall'.op = "fire" => \E t \in timers : t.id = lastCall'.timer]_vars
    /\ [][\A t \in timers' : t \in timers \/ t.id = nextTimer]_vars

\* C23 witness: cancelTask("x") has just returned true, "x" has no timer any
\* more and the timer of "queue-metrics" is still installed.
C23_Witness ==
    /\ lastCall.op = "cancelTask" /\ lastCall.name = "x" /\ lastCall.result
    /\ scheduledTasks["x"] = NoTimer
    /\ \A t \in timers : t.name # "x"
    /\ \E t \in timers : t.name = "queue-metrics" /\ t.id = scheduledTasks["queue-metrics"]

C26_ParametersDefault ==
    \A r \in 1..MaxReqs :
        /\ reqs[r].invoked # <<>> =>
            /\ reqs[r].commandData.command = reqs[r].command
            /\ reqs[r].commandData.parameters \in
                    {EmptyMap} \cup (BodyParameters \ {Undefined})
        /\ reqs[r].invoked = <<>> => reqs[r].commandData = NoCommandData

\* C26 witness: a command sent without parameters reached its handler h1
\* with the empty map.
C26_Witness ==
    \E r \in 1..MaxReqs :
        /\ reqs[r].command = "calendar.event.create"
        /\ reqs[r].invoked = <<"h1">>
        /\ reqs[r].commandData =
                [command |-> "calendar.event.create", parameters |-> EmptyMap]


(***************************************************************************)
(* Properties of parseInput and extractEntities.                           *)
(***************************************************************************)
\* C27: parseInput never throws; on a text that has none of the words of an
\* intent it returns UNKNOWN; every UNKNOWN it returns has confidence at most
\* 0.3 and no entity; and on an internal error (a null input) it returns
\* UNKNOWN with no entity and a confidence below the gate of 0.5.
C27_UnknownAndNeverThrows ==
    nlpInput.given =>
        /\ ~nlpInput.threw
        /\ ~intent.isNull
        /\ (/\ nlpInput.text # NullText
            /\ \A i \in 1..Len(nlpInput.text) :
                    nlpInput.text[i] \notin
                        {"schedule", "Schedule", "address", "set", "up",
                         "meeting", "document", "preference"})
            => intent.type = "UNKNOWN"
        /\ intent.type = "UNKNOWN"
            => intent.confidence <= 30 /\ intent.entities = <<>>
        /\ nlpInput.text = NullText
            => /\ intent.type = "UNKNOWN"
               /\ intent.entities = <<>>
               /\ intent.confidence < LowConfidenceThreshold

\* C27 witness: a null input was parsed, and the intent answered is the one of
\* the catch block.
C27_Witness ==
    /\ nlpInput.given
    /\ nlpInput.text = NullText
    /\ intent.type = "UNKNOWN"
    /\ intent.confidence = 10

\* C28: the entities of parseInput(text) are those of extractEntities on the
\* trimmed, lower-cased text, whatever the intent, UNKNOWN included.
C28_EntitiesIndependentOfIntent ==
    (nlpInput.given /\ nlpInput.text # NullText)
    => intent.entities = extractEntities(toLowerCase(trim(nlpInput.text)))

\* C29: "schedule a meeting with Jane tomorrow at 3pm" is parsed as
\* CREATE_EVENT with confidence at least 0.8, with a PERSON entity valued
\* "Jane" and a DATE_TIME entity containing "tomorrow at 3pm", and processIntent
\* answers it with success=true and data.intent = CREATE_EVENT.
C29_JaneTomorrow ==
    (/\ nlpInput.given
     /\ nlpInput.text = <<"schedule", "a", "meeting", "with", "Jane",
                          "tomorrow", "at", "3pm">>)
    => /\ intent.type = "CREATE_EVENT"
       /\ intent.confidence >= 80
       /\ \E i \in 1..Len(intent.entities) :
            /\ intent.entities[i].type = "PERSON"
            /\ intent.entities[i].value = <<"Jane">>
       /\ \E i \in 1..Len(intent.entities) :
            /\ intent.entities[i].type = "DATE_TIME"
            /\ \E k \in 1..(Len(intent.entities[i].value) - 2) :
                    SubSeq(intent.entities[i].value, k, k + 2)
                        = <<"tomorrow", "at", "3pm">>
       /\ result.returned =>
            result.success /\ result.data.intent = "CREATE_EVENT"


C31_HistoryBounded ==
    \A u \in HistoryUsers :
        LET h == historyStore[u].items
            n == stored[u]
        IN  /\ Len(h) <= maxHistoryItems
            /\ Len(h) = IF n < maxHistoryItems THEN n ELSE maxHistoryItems
            /\ \A i \in 1..Len(h) : h[i].message = n - Len(h) + i

\* C31 witness: after 110 stores the history of alice holds messages 11 to 110.
C31_Witness ==
    /\ stored["alice"] = 110
    /\ Len(historyStore["alice"].items) = 100
    /\ historyStore["alice"].items[1].message = 11
    /\ historyStore["alice"].items[100].message = 110

\* C32: getHistory(userId, limit) with limit >= 0 answers at most limit
\* messages: the last min(limit, number stored) messages of the user, oldest
\* first, and the empty list for a user without history.
C32_GetHistoryLimit ==
    (histCall.op = "getHistory" /\ ~histCall.threw /\ histCall.limit >= 0)
    => LET h == historyStore[histCall.userId].items
           n == IF histCall.limit < Len(h) THEN histCall.limit ELSE Len(h)
       IN  /\ Len(histCall.result) <= histCall.limit
           /\ histCall.result = SubSeq(h, Len(h) - n + 1, Len(h))
           /\ ~historyStore[histCall.userId].present => histCall.result = <<>>

\* C33: storeContext(u, k, v) makes getContext(u, k) answer v; clearContext(u, k)
\* makes it answer null and clearContext(u) makes getContext(u, k') answer null
\* for every key k'; before any call every getContext answers null; and no
\* call changes the answer of getContext for another user or another key.
C33_ContextRoundTrip ==
    /\ [](ctxCall.op = "none"
            => \A u \in ContextUsers, k \in ContextKeys : getContext(u, k) = Null)
    /\ [][ctxCall'.op = "storeContext"
            => \A u \in ContextUsers, k \in ContextKeys :
                    IF u = ctxCall'.userId /\ k = ctxCall'.key
                    THEN getContext(u, k)' = ctxCall'.value
                    ELSE getContext(u, k)' = getContext(u, k)]_vars
    /\ [][(ctxCall'.op = "clearContext" /\ ctxCall'.key # Undefined)
            => \A u \in ContextUsers, k \in ContextKeys :
                    IF u = ctxCall'.userId /\ k = ctxCall'.key
                    THEN getContext(u, k)' = Null
                    ELSE getContext(u, k)' = getContext(u, k)]_vars
    /\ [][(ctxCall'.op = "clearContext" /\ ctxCall'.key = Undefined)
            => \A u \in ContextUsers, k \in ContextKeys :
                    IF u = ctxCall'.userId
                    THEN getContext(u, k)' = Null
                    ELSE getContext(u, k)' = getContext(u, k)]_vars
    /\ [][ctxCall'.op = "getContext"
            => /\ \A u \in ContextUsers, k \in ContextKeys :
                    (u = ctxCall'.userId /\ k = ctxCall'.key)
                    => ctxCall'.result = getContext(u, k)
               /\ contextStore' = contextStore]_vars


(***************************************************************************)
(* Properties of the authentication middleware and of the MCP route.       *)
(***************************************************************************)
\* C34: on a request without Authorization header authenticate calls next
\* once, with an error whose message contains "Authentication required", and
\* sets no req.user.
C34_NoHeaderRejected ==
    (http.pc # "new" /\ http.authorization = Undefined)
    => /\ ~http.user.present
       /\ Len(http.nextCalls) = 1
       /\ http.nextCalls[1] # NoError
       /\ http.nextCalls[1].message = "Authentication required"

\* C35: requireRole(r) calls next exactly once; without an error exactly when
\* req.user is present and its role, 'user' when it has none, is r or 'admin';
\* with a 401 error when there is no user and with a 403 error "Required role:
\* r" when the role is not enough.
C35_RequireRole ==
    rbac.called =>
        LET userRole == IF Falsy(rbac.user.role) THEN "user" ELSE rbac.user.role
            allowed == /\ rbac.user.present
                       /\ userRole \in {rbac.requiredRole, "admin"}
        IN  /\ Len(rbac.nextCalls) = 1
            /\ rbac.nextCalls[1] = NoError <=> allowed
            /\ ~rbac.user.present => rbac.nextCalls[1].statusCode = 401
            /\ (rbac.user.present /\ ~allowed)
                => /\ rbac.nextCalls[1].statusCode = 403
                   /\ rbac.nextCalls[1].message
                        = RequiredRoleMessage(rbac.requiredRole)

\* C35 witness: an administrator passed requireRole("editor").
C35_Witness ==
    /\ rbac.called
    /\ rbac.user.present /\ rbac.user.role = "admin"
    /\ rbac.requiredRole = "editor"
    /\ rbac.nextCalls = <<NoError>>

\* C38: on the MCP route processCommand starts only after authenticate has
\* called next without an error; a request whose Authorization header is
\* missing or malformed, whose token is invalid or whose payload has no user
\* id has no handler invoked and no command metadata attached.
C38_AuthBeforeDispatch ==
    /\ \A r \in 1..MaxReqs :
            reqs[r].pc # "new" => (r = 1 /\ http.pc = "passed")
    /\ (/\ http.pc # "new"
        /\ http.authorization \in
                {Undefined, "Basic abc", "Bearer ", "Bearer expired", "Bearer nosub"})
        => /\ http.pc = "failed"
           /\ ~http.user.present
           /\ \A r \in 1..MaxReqs :
                reqs[r].invoked = <<>> /\ reqs[r].commandData = NoCommandData

\* C38 witness: a handler is registered for the command, and a request whose
\* token has no user id was turned away without reaching it.
C38_Witness ==
    /\ Lookup(handlers, "calendar.event.create") # Undefined
    /\ http.pc = "failed" /\ http.authorization = "Bearer nosub"
    /\ reqs[1].pc = "new" /\ reqs[1].invoked = <<>>


\* C36: whenever scheduleTask returns false, the registry and the running
\* timers are what they were before the call, so that a timer installed under
\* the same name is still installed.
C36_FailureLeavesTriggers ==
    [][(lastCall'.op = "scheduleTask" /\ ~lastCall'.result)
        => timers' = timers /\ scheduledTasks' = scheduledTasks]_vars

C39_RefreshTokenKept ==
    (tok.called /\ tok.refreshCalls # <<>> /\ tok.threw = Undefined)
    => /\ ~Falsy(tok.token.refreshToken)
       /\ ~Falsy(tok.returned.refreshToken)
       /\ tok.returned.refreshToken =
            IF Falsy(tok.response.refresh_token)
            THEN tok.token.refreshToken
            ELSE tok.response.refresh_token

\* C39 witness: a token that came out of a refresh was refreshed again, the
\* provider sent no refresh token, and the first one is still there.
C39_Witness ==
    /\ tok.called /\ tok.threw = Undefined
    /\ tok.token.accessToken = "new-access-token"
    /\ tok.token.refreshToken = "refresh-token"
    /\ tok.refreshCalls = <<"refresh-token">>
    /\ tok.response.refresh_token = Undefined
    /\ tok.returned.refreshToken = "refresh-token"

=============================================================================
